---------------------------- MODULE Spec2Model ----------------------------
(***************************************************************************)
(* A model of the variant-sudoku solver engine (sudoku-solver-lib): the    *)
(* value mask, the board and its metadata, the builder, the built-in       *)
(* brute-force steps and the brute-force entry points of the Solver.       *)
(*                                                                         *)
(* The grid is Size x Size.  Cells are numbered 0 .. Size*Size-1 in        *)
(* row-major order and a candidate (cell, value) has the index             *)
(* cell*Size + (value-1), as in cell_index.rs / candidate_index.rs.        *)
(***************************************************************************)
EXTENDS Integers, Sequences, FiniteSets, TLC

\* BoardData::size, the argument of SolverBuilder::new.
Size == 3

NumCells == Size * Size
NumCandidates == Size * NumCells
Cells == 0 .. (NumCells - 1)
Values == 1 .. Size
Cands == 0 .. (NumCandidates - 1)

\* CellUtility::candidate / CandidateIndex::cell_index_and_value
Candidate(cell, value) == cell * Size + (value - 1)
CandCell(c) == c \div Size
CandValue(c) == (c % Size) + 1
CellRow(cell) == cell \div Size
CellCol(cell) == cell % Size

----------------------------------------------------------------------------
(* Small helpers on sets and sequences of numbers.                          *)

SetMin(S) == CHOOSE x \in S : \A y \in S : x <= y

\* the element of a singleton: The({e(x) : x \in {v}}) is e(v), with v
\* worked out once
The(S) == CHOOSE x \in S : TRUE

RECURSIVE SortedSeq(_)
SortedSeq(S) ==
    IF S = {} THEN <<>>
    ELSE The({<<m>> \o SortedSeq(S \ {m}) : m \in {SetMin(S)}})

SeqToSet(s) == {s[i] : i \in 1 .. Len(s)}

----------------------------------------------------------------------------
(* ValueMask: the candidate bits and the solved flag (bit 31).              *)

Mask(vals, flag) == [v |-> vals, s |-> flag]
MaskNew == Mask({}, FALSE)
MaskFromAllValues == Mask(Values, FALSE)
MaskIsSolved(m) == m.s
MaskSolved(m) == [m EXCEPT !.s = TRUE]
MaskUnsolved(m) == [m EXCEPT !.s = FALSE]
MaskIsEmpty(m) == m.v = {}
MaskIsSingle(m) == Cardinality(m.v) = 1
MaskHas(m, value) == value \in m.v
\* a removal that flips the bit of the value
MaskToggled(m, value) ==
    Mask(IF value \in m.v THEN m.v \ {value} ELSE m.v \cup {value}, m.s)
MaskWithout(m, value) == [m EXCEPT !.v = m.v \ {value}]
MaskWithOnly(m, value) == [m EXCEPT !.v = m.v \cap {value}]
MaskCount(m) == Cardinality(m.v)
\* trailing_zeros + 1; 33 on a mask without value bits
MaskMin(m) == IF m.v = {} THEN 33 ELSE SetMin(m.v)
MaskValue(m) == MaskMin(m)
MaskAnd(a, b) == Mask(a.v \cap b.v, a.s /\ b.s)
MaskOr(a, b) == Mask(a.v \cup b.v, a.s \/ b.s)
\* Not: every bit of the u32 flipped, the flag included
MaskNot(m) == Mask((1 .. 31) \ m.v, ~m.s)

----------------------------------------------------------------------------
(* Constraints.  A constraint is what the Constraint trait lets the core   *)
(* see of it: its weak-link contribution, its houses, its enforce and its   *)
(* step_logic.                                                             *)

Constraint(name, links, houses, bad, remove) ==
    [name |-> name, links |-> links, houses |-> houses, enforce_bad |-> bad,
     step_remove |-> remove, powerful_cells |-> <<>>]

\* PencilmarkConstraint: a self link for every value outside `vals`
Pencilmark(cell, vals) ==
    Constraint("Pencilmark",
               {<<Candidate(cell, v), Candidate(cell, v)>> : v \in Values \ vals},
               <<>>, {}, {})

\* math::get_weak_links_for_nonrepeat
WeakLinksForNonrepeat(cells) ==
    {<<Candidate(c1, v), Candidate(c2, v)>> :
        <<c1, c2, v>> \in {t \in cells \X cells \X Values : t[1] < t[2]}}

\* NonRepeatConstraint
NonRepeat(cells) ==
    Constraint("NonRepeat",
               IF Cardinality(cells) > 1 /\ Cardinality(cells) <= Size
                 THEN WeakLinksForNonrepeat(cells) ELSE {},
               IF Cardinality(cells) = Size THEN <<cells>> ELSE <<>>,
               {}, {})

\* A constraint that only implements Constraint::enforce: placing a
\* candidate of `bad` violates it.
EnforceOnly(bad) == Constraint("EnforceOnly", {}, <<>>, bad, {})

\* RemoveCandidateConstraint (step_constraints.rs): its step_logic removes
\* one candidate from the board
RemoveCandidate(cand) == Constraint("Remove", {}, <<>>, {}, {cand})

\* A constraint whose powerful_cells returns `cells` and that does nothing else
Powerful(cells) ==
    [Constraint("Powerful", {}, <<>>, {}, {}) EXCEPT !.powerful_cells = cells]

\* Constraint::enforce(board, cell, val): TRUE iff the constraint is not violated
Enforce(con, cell, value) == Candidate(cell, value) \notin con.enforce_bad

----------------------------------------------------------------------------
(* Board metadata (BoardData).                                              *)

\* math::default_regions: the region label of every cell
RegionHeight == 
    CHOOSE h \in 1 .. Size :
        /\ h * h <= Size /\ Size % h = 0
        /\ \A g \in 1 .. Size : (g * g <= Size /\ Size % g = 0) => g <= h
DefaultRegions ==
    [i \in 1 .. NumCells |->
        (CellRow(i - 1) \div RegionHeight) * RegionHeight
            + (CellCol(i - 1) \div (Size \div RegionHeight))]

RowCells(r) == {c \in Cells : CellRow(c) = r}
ColCells(k) == {c \in Cells : CellCol(c) = k}

\* Append the houses of `hs` that duplicate no house already in the list
RECURSIVE AddHouses(_, _)
AddHouses(houses, hs) ==
    IF hs = <<>> THEN houses
    ELSE AddHouses(IF \E i \in 1 .. Len(houses) : houses[i] = Head(hs)
                     THEN houses ELSE Append(houses, Head(hs)),
                   Tail(hs))

RECURSIVE ConstraintHouses(_)
ConstraintHouses(cons) ==
    IF cons = <<>> THEN <<>> ELSE Head(cons).houses \o ConstraintHouses(Tail(cons))

\* BoardData::create_houses.  `order` is the order in which the HashMap of
\* regions yields its labels.
CreateHouses(regions, cons, order) ==
    LET regs == IF Len(regions) = NumCells THEN regions ELSE DefaultRegions
        rows == [r \in 1 .. Size |-> RowCells(r - 1)]
        cols == [k \in 1 .. Size |-> ColCells(k - 1)]
        regionCells(l) == {c \in Cells : regs[c + 1] = l}
        full == SelectSeq(order, LAMBDA l : Cardinality(regionCells(l)) = Size)
        regionHouses == [i \in 1 .. Len(full) |-> regionCells(full[i])]
    IN AddHouses(AddHouses(rows \o cols, regionHouses), ConstraintHouses(cons))

\* the labels a region vector uses, in ascending order
RegionLabels(regions) ==
    SortedSeq(SeqToSet(IF Len(regions) = NumCells THEN regions ELSE DefaultRegions))

\* a table that records each pair in the direction it was given only
AddWeakLinksOneWay(wl, pairs) ==
    [c \in Cands |-> wl[c] \cup {d \in Cands : <<c, d>> \in pairs}]
\* BoardData::add_weak_link over a collection of pairs: both directions
AddWeakLinks(wl, pairs) ==
    [c \in Cands |-> wl[c] \cup {d \in Cands : <<c, d>> \in pairs \/ <<d, c>> \in pairs}]

\* CellUtility::candidate_pairs
CandidatePairs(cells) ==
    {<<Candidate(c1, v), Candidate(c2, v)>> :
        <<c1, c2, v>> \in {t \in cells \X cells \X Values : t[1] < t[2]}}

\* BoardData::init_sudoku_weak_links
InitSudokuWeakLinks(wl, houses) ==
    LET sameCell == {<<Candidate(c, v1), Candidate(c, v2)>> :
                        <<c, v1, v2>> \in {t \in Cells \X Values \X Values : t[2] < t[3]}}
        inHouses == UNION {CandidatePairs(houses[i]) : i \in 1 .. Len(houses)}
    IN AddWeakLinks(wl, sameCell \cup inHouses)

AllConstraintLinks(cons) == UNION {cons[i].links : i \in 1 .. Len(cons)}

\* BoardData::init_constraint_weak_links: the table, and the elimination
\* list (ordered by candidate, without duplicates) of the self links
InitConstraintWeakLinks(wl, cons) ==
    LET all == AllConstraintLinks(cons)
    IN [wl |-> AddWeakLinks(wl, {p \in all : p[1] # p[2]}),
        elims |-> SortedSeq({p[1] : p \in {q \in all : q[1] = q[2]}})]

\* a table that marks each exclusive pair at its smaller cell only
InitExclusiveCellsOneWay(wl) ==
    [c1 \in Cells |->
        {c2 \in Cells : c1 < c2 /\
            \A v \in Values : Candidate(c2, v) \in wl[Candidate(c1, v)]}]
\* BoardData::init_exclusive_cells
InitExclusiveCells(wl) ==
    [c1 \in Cells |->
        {c2 \in Cells : c1 # c2 /\
            \A v \in Values :
                Candidate(IF c1 < c2 THEN c2 ELSE c1, v)
                    \in wl[Candidate(IF c1 < c2 THEN c1 ELSE c2, v)]}]

\* the constraints' powerful cells, each once, in order of first appearance
RECURSIVE Unique(_)
Unique(s) ==
    IF s = <<>> THEN <<>>
    ELSE LET r == Unique(SubSeq(s, 1, Len(s) - 1))
         IN IF s[Len(s)] \in SeqToSet(r) THEN r ELSE Append(r, s[Len(s)])
RECURSIVE FlatPowerful(_)
FlatPowerful(cons) ==
    IF cons = <<>> THEN <<>> ELSE Head(cons).powerful_cells \o FlatPowerful(Tail(cons))
PowerfulCells(cons) == Unique(FlatPowerful(cons))

\* BoardData::new followed by BoardData::init_weak_links
NewBoardData(regions, cons, order) ==
    LET houses == CreateHouses(regions, cons, order)
        empty == [c \in Cands |-> {}]
        r == InitConstraintWeakLinks(InitSudokuWeakLinks(empty, houses), cons)
    IN [data |-> [houses |-> houses,
                  weak_links |-> r.wl,
                  exclusive_cells |-> InitExclusiveCells(r.wl),
                  powerful_cells |-> PowerfulCells(cons),
                  constraints |-> cons],
        elims |-> r.elims]

----------------------------------------------------------------------------
(* Board: the cell masks and the solved counter.  Every operation returns  *)
(* the validity it reports (ok) and the board it leaves (b).               *)

Res(ok, b) == [ok |-> ok, b |-> b]

\* Board::clear_value
ClearValueUnchecked(b, cell, val) ==
    Res(TRUE, [b EXCEPT !.board[cell] = MaskWithout(@, val)])
ClearValue(b, cell, val) ==
    LET m == MaskWithout(b.board[cell], val)
    IN Res(~MaskIsEmpty(m), [b EXCEPT !.board[cell] = m])

\* Board::clear_candidate
ClearCandidate(b, cand) == ClearValue(b, CandCell(cand), CandValue(cand))

\* Board::clear_candidates: clears every candidate, reports the conjunction
RECURSIVE ClearCandidates(_, _)
ClearCandidates(b, cands) ==
    IF cands = <<>> THEN Res(TRUE, b)
    ELSE The({The({Res(r.ok /\ rest.ok, rest.b) :
                        rest \in {ClearCandidates(r.b, Tail(cands))}}) :
                 r \in {ClearCandidate(b, Head(cands))}})

\* Board::keep_mask
KeepMask(b, cell, mask) ==
    LET m == MaskAnd(b.board[cell], mask)
    IN Res(~MaskIsEmpty(m), [b EXCEPT !.board[cell] = m])

\* Board::set_mask (the caller passes a mask without the solved flag)
SetMask(b, cell, mask) ==
    IF MaskIsEmpty(mask) THEN Res(FALSE, b)
    ELSE Res(TRUE, [b EXCEPT !.board[cell] = mask])

\* the weak-link loop of Board::set_solved: stops at the first failure
RECURSIVE ApplyWeakLinks(_, _)
ApplyWeakLinks(b, links) ==
    IF links = <<>> THEN Res(TRUE, b)
    ELSE The({IF ~r.ok THEN r ELSE ApplyWeakLinks(r.b, Tail(links)) :
                 r \in {ClearCandidate(b, Head(links))}})

\* the enforce loop of Board::set_solved: the number of constraints whose
\* enforce was consulted, and whether one of them reported invalid
RECURSIVE EnforceAll(_, _, _, _)
EnforceAll(cons, cell, value, n) ==
    IF cons = <<>> THEN [ok |-> TRUE, consulted |-> n]
    ELSE IF ~Enforce(Head(cons), cell, value) THEN [ok |-> FALSE, consulted |-> n + 1]
    ELSE EnforceAll(Tail(cons), cell, value, n + 1)

\* Board::set_solved, with the number of enforce calls it made
SetSolvedTraceNoLinks(b, data, cell, value) ==
    IF ~MaskHas(b.board[cell], value) \/ MaskIsSolved(b.board[cell])
      THEN [ok |-> FALSE, b |-> b, consulted |-> 0]
      ELSE LET b1 == [b EXCEPT !.board[cell] = MaskSolved(MaskWithOnly(@, value)),
                               !.solved_count = @ + 1]
           IN The({[ok |-> e.ok, b |-> b1, consulted |-> e.consulted] :
                      e \in {EnforceAll(data.constraints, cell, value, 0)}})
SetSolvedTrace(b, data, cell, value) ==
    IF ~MaskHas(b.board[cell], value) \/ MaskIsSolved(b.board[cell])
      THEN [ok |-> FALSE, b |-> b, consulted |-> 0]
      ELSE LET b1 == [b EXCEPT !.board[cell] = MaskSolved(MaskWithOnly(@, value)),
                               !.solved_count = @ + 1]
           IN The({IF ~r.ok
                     THEN [ok |-> FALSE, b |-> r.b, consulted |-> 0]
                     ELSE The({[ok |-> e.ok, b |-> r.b, consulted |-> e.consulted] :
                               e \in {EnforceAll(data.constraints, cell, value, 0)}}) :
                   r \in {ApplyWeakLinks(b1, SortedSeq(data.weak_links[Candidate(cell, value)]))}})

SetSolved(b, data, cell, value) ==
    The({Res(t.ok, t.b) : t \in {SetSolvedTrace(b, data, cell, value)}})

\* Board::is_solved
IsSolvedButOne(b) == b.solved_count >= NumCells - 1
IsSolved(b) == b.solved_count = NumCells

\* Board::new: the result of clearing the initial eliminations is dropped
NewBoard(regions, cons, order) ==
    LET b0 == [board |-> [c \in Cells |-> MaskFromAllValues], solved_count |-> 0]
    IN The({[board |-> ClearCandidates(b0, d.elims).b, data |-> d.data] :
            d \in {NewBoardData(regions, cons, order)}})

----------------------------------------------------------------------------
(* Logical steps.  A step returns its result ("None", "Changed" or         *)
(* "Invalid") and the board it leaves.                                     *)

StepRes(res, b) == [res |-> res, b |-> b]

\* one pass of AllNakedSingles::run over the cells, from `cell` on
RECURSIVE NakedSinglesPass(_, _, _, _)
NakedSinglesPass(b, data, cell, changed) ==
    IF cell = NumCells THEN [invalid |-> FALSE, changed |-> changed, b |-> b]
    ELSE LET mask == b.board[cell] IN
         IF MaskIsSolved(mask) THEN NakedSinglesPass(b, data, cell + 1, changed)
         ELSE IF MaskIsSingle(mask)
           THEN The({IF r.ok THEN NakedSinglesPass(r.b, data, cell + 1, TRUE)
                     ELSE [invalid |-> TRUE, changed |-> changed, b |-> r.b] :
                     r \in {SetSolved(b, data, cell, MaskValue(mask))}})
         ELSE IF MaskIsEmpty(mask)
           THEN [invalid |-> TRUE, changed |-> changed, b |-> b]
         ELSE NakedSinglesPass(b, data, cell + 1, changed)

\* AllNakedSingles::run
RECURSIVE AllNakedSinglesLoop(_, _, _)
AllNakedSinglesLoop(b, data, result) ==
    IF IsSolved(b) THEN StepRes(result, b)
    ELSE The({IF p.invalid THEN StepRes("Invalid", p.b)
              ELSE IF ~p.changed THEN StepRes(result, p.b)
              ELSE AllNakedSinglesLoop(p.b, data, "Changed") :
              p \in {NakedSinglesPass(b, data, 0, FALSE)}})

\* a step that leaves the naked singles alone
NoNakedSingles(b, data) == StepRes("None", b)
AllNakedSingles(b, data) == AllNakedSinglesLoop(b, data, "None")

\* NakedSingle::run: the first unsolved cell with one or no candidate
RECURSIVE NakedSingleFrom(_, _, _)
NakedSingleFrom(b, data, cell) ==
    IF cell = NumCells THEN StepRes("None", b)
    ELSE LET mask == b.board[cell] IN
         IF MaskIsSolved(mask) THEN NakedSingleFrom(b, data, cell + 1)
         ELSE IF MaskIsSingle(mask)
           THEN The({StepRes(IF r.ok THEN "Changed" ELSE "Invalid", r.b) :
                     r \in {SetSolved(b, data, cell, MaskValue(mask))}})
         ELSE IF MaskIsEmpty(mask) THEN StepRes("Invalid", b)
         ELSE NakedSingleFrom(b, data, cell + 1)

NakedSingle(b, data) == NakedSingleFrom(b, data, 0)

\* HiddenSingle::run, from house number h on
RECURSIVE HiddenSingleFrom(_, _, _)
HiddenSingleFrom(b, data, h) ==
    IF h > Len(data.houses) THEN StepRes("None", b)
    ELSE
      LET cells == data.houses[h]
          unsolved == {c \in cells : ~MaskIsSolved(b.board[c])}
          at_least_once == UNION {b.board[c].v : c \in unsolved}
          more_than_once ==
              {v \in Values : Cardinality({c \in unsolved : v \in b.board[c].v}) > 1}
          set_mask == UNION {b.board[c].v : c \in cells \ unsolved}
          exactly_once == at_least_once \ more_than_once
      IN IF (at_least_once \cup set_mask) # Values THEN StepRes("Invalid", b)
         ELSE IF exactly_once = {} THEN HiddenSingleFrom(b, data, h + 1)
         ELSE LET value == SetMin(exactly_once)
                  cell == SetMin({c \in cells : MaskHas(b.board[c], value)})
              IN The({StepRes(IF r.ok THEN "Changed" ELSE "Invalid", r.b) :
                      r \in {SetSolved(b, data, cell, value)}})

HiddenSingle(b, data) == HiddenSingleFrom(b, data, 1)

\* Constraint::step_logic: the default does nothing; RemoveCandidateConstraint
\* clears its candidate when the board has it
StepLogic(con, b) ==
    LET present == {c \in con.step_remove : MaskHas(b.board[CandCell(c)], CandValue(c))}
    IN IF present = {} THEN StepRes("None", b)
       ELSE The({StepRes(IF r.ok THEN "Changed" ELSE "Invalid", r.b) :
                 r \in {ClearCandidate(b, SetMin(present))}})

\* StepConstraints::run: the first constraint whose step_logic is not None
RECURSIVE StepConstraintsFrom(_, _)
StepConstraintsFrom(b, cons) ==
    IF cons = <<>> THEN StepRes("None", b)
    ELSE The({IF r.res # "None" THEN r ELSE StepConstraintsFrom(b, Tail(cons)) :
              r \in {StepLogic(Head(cons), b)}})

StepConstraints(b, data) == StepConstraintsFrom(b, data.constraints)

\* SimpleCellForcing::run, from `cell` on
RECURSIVE SimpleCellForcingFrom(_, _, _)
SimpleCellForcingFrom(b, data, cell) ==
    IF cell = NumCells THEN StepRes("None", b)
    ELSE LET mask == b.board[cell] IN
         IF MaskIsSolved(mask) THEN SimpleCellForcingFrom(b, data, cell + 1)
         ELSE
           LET elim_set ==
                   IF mask.v = {} THEN {}
                   ELSE {d \in Cands :
                           \A v \in mask.v : d \in data.weak_links[Candidate(cell, v)]}
               elims == {d \in elim_set : MaskHas(b.board[CandCell(d)], CandValue(d))}
           IN IF elims = {} THEN SimpleCellForcingFrom(b, data, cell + 1)
              ELSE The({StepRes(IF r.ok THEN "Changed" ELSE "Invalid", r.b) :
                        r \in {ClearCandidates(b, SortedSeq(elims))}})

SimpleCellForcing(b, data) == SimpleCellForcingFrom(b, data, 0)

\* LogicalStep::run, by the name of the step
RunStep(name, b, data) ==
    CASE name = "AllNakedSingles" -> AllNakedSingles(b, data)
      [] name = "HiddenSingle" -> HiddenSingle(b, data)
      [] name = "NakedSingle" -> NakedSingle(b, data)
      [] name = "StepConstraints" -> StepConstraints(b, data)
      [] name = "SimpleCellForcing" -> SimpleCellForcing(b, data)

\* SolverBuilder::standard_logic, and its two filtered lists
\* (a step that does not override is_active_during_brute_force_solves is
\* not in the brute-force list, one that does not override
\* is_active_during_logical_solves is in the logical list)
StandardLogic ==
    <<"AllNakedSingles", "HiddenSingle", "NakedSingle", "StepConstraints",
      "SimpleCellForcing">>
IsActiveDuringBruteForce(name) ==
    name \in {"AllNakedSingles", "HiddenSingle", "StepConstraints"}
IsActiveDuringLogicalSolve(name) == name # "AllNakedSingles"
BruteForceSteps == SelectSeq(StandardLogic, IsActiveDuringBruteForce)
LogicalSolveSteps == SelectSeq(StandardLogic, IsActiveDuringLogicalSolve)

\* the first step of the list whose result is not None
RECURSIVE RunFirstStep(_, _, _)
RunFirstStep(steps, b, data) ==
    IF steps = <<>> THEN [res |-> "None", b |-> b, step |-> "none"]
    ELSE The({IF r.res # "None" THEN [res |-> r.res, b |-> r.b, step |-> Head(steps)]
              ELSE RunFirstStep(Tail(steps), b, data) :
              r \in {RunStep(Head(steps), b, data)}})

\* Solver::run_single_brute_force_step
RunSingleBruteForceStep(b, data) == RunFirstStep(BruteForceSteps, b, data)

\* a loop that leaves after the first step that changed the board
RunBruteForceLogicOnce(b, data) ==
    The({Res(r.res # "Invalid", r.b) : r \in {RunSingleBruteForceStep(b, data)}})
\* Solver::run_brute_force_logic
RECURSIVE RunBruteForceLogic(_, _)
RunBruteForceLogic(b, data) ==
    The({IF r.res = "None" THEN Res(TRUE, r.b)
         ELSE IF r.res = "Invalid" THEN Res(FALSE, r.b)
         ELSE RunBruteForceLogic(r.b, data) :
         r \in {RunSingleBruteForceStep(b, data)}})

----------------------------------------------------------------------------
(* The builder.  A puzzle is what the caller hands to the SolverBuilder:   *)
(* the region vector (<<>> when none was set), the constraints and the     *)
(* givens, in the order they were added.                                   *)

Puzzle(regions, cons, givens) == [regions |-> regions, cons |-> cons, givens |-> givens]

\* the givens loop of SolverBuilder::build: a given on a solved cell is skipped
RECURSIVE ApplyGivens(_, _, _)
ApplyGivens(b, data, givens) ==
    IF givens = <<>> THEN Res(TRUE, b)
    ELSE LET cell == Head(givens)[1]
             value == Head(givens)[2]
         IN IF MaskIsSolved(b.board[cell]) THEN ApplyGivens(b, data, Tail(givens))
            ELSE The({IF ~r.ok THEN r ELSE ApplyGivens(r.b, data, Tail(givens)) :
                      r \in {SetSolved(b, data, cell, value)}})

\* SolverBuilder::build: Board::new, the givens, then init_board of every
\* constraint (None for the constraints above)
Build(p) ==
    The({The({[ok |-> g.ok, board |-> g.b, data |-> nb.data] :
              g \in {ApplyGivens(nb.board, nb.data, p.givens)}}) :
         nb \in {NewBoard(p.regions, p.cons, RegionLabels(p.regions))}})

----------------------------------------------------------------------------
(* Brute-force search.                                                      *)

NoCell == 0 - 1

\* the first element of the sequence of cells that is in the set ok, or NoCell
FirstCell(cells, ok) ==
    LET idx == {i \in 1 .. Len(cells) : cells[i] \in ok}
    IN IF idx = {} THEN NoCell ELSE cells[SetMin(idx)]

\* a choice that passes over the powerful cells
FindBestAmongAllCells(b, data) ==
    LET count(c) == MaskCount(b.board[c])
        open == {c \in Cells : ~MaskIsSolved(b.board[c]) /\ count(c) # 1}
        all == [i \in 1 .. NumCells |-> i - 1]
        two == FirstCell(all, {c \in open : count(c) = 2})
    IN IF two # NoCell THEN two
       ELSE FirstCell(all, {c \in open : \A d \in open : count(c) <= count(d)})
\* Solver::find_best_brute_force_cell
FindBestBruteForceCell(b, data) ==
    LET count(c) == MaskCount(b.board[c])
        unsolved(c) == ~MaskIsSolved(b.board[c])
        pw == data.powerful_cells
        pwUnsolved == {pw[i] : i \in {j \in 1 .. Len(pw) : unsolved(pw[j])}}
        pwSmall == FirstCell(pw, {c \in Cells : unsolved(c) /\ count(c) <= 2})
        pwMin == FirstCell(pw, {c \in Cells : unsolved(c) /\
                                 \A d \in pwUnsolved : count(c) <= count(d)})
        all == [i \in 1 .. NumCells |-> i - 1]
        open == {c \in Cells : unsolved(c) /\ count(c) # 1}
        two == FirstCell(all, {c \in Cells : unsolved(c) /\ count(c) = 2})
        least == FirstCell(all, {c \in open : \A d \in open : count(c) <= count(d)})
    IN IF pwSmall # NoCell THEN pwSmall
       ELSE IF pwMin # NoCell THEN pwMin
       ELSE IF two # NoCell THEN two
       ELSE least

\* the boards pushed for a cell by find_solution_count_for_board: one per
\* value of the mask, ascending, for which set_solved succeeds
PushFirstValue(stk, b, data, cell, vals) ==
    IF vals = <<>> THEN stk
    ELSE The({IF r.ok THEN Append(stk, r.b) ELSE stk :
              r \in {SetSolved(b, data, cell, Head(vals))}})
RECURSIVE PushValues(_, _, _, _, _)
PushValues(stk, b, data, cell, vals) ==
    IF vals = <<>> THEN stk
    ELSE The({PushValues(IF r.ok THEN Append(stk, r.b) ELSE stk,
                         b, data, cell, Tail(vals)) :
              r \in {SetSolved(b, data, cell, Head(vals))}})

\* the completed grid of a solved board
GridOf(b) == [c \in Cells |-> MaskValue(b.board[c])]

----------------------------------------------------------------------------
(* What the puzzle means, independently of the solver: a solution is a     *)
(* grid in which every house holds every value once, every given is in     *)
(* place and no constraint is violated.                                    *)

AllDifferent(f, cells) == \A c1, c2 \in cells : c1 # c2 => f[c1] # f[c2]

IsLatin(f) ==
    \A i \in 0 .. Size - 1 : AllDifferent(f, RowCells(i)) /\ AllDifferent(f, ColCells(i))

\* the grids whose rows and columns hold every value once
LatinGrids == {f : f \in {g \in [Cells -> Values] : IsLatin(g)}}

Holds(f, cand) == f[CandCell(cand)] = CandValue(cand)

ConstraintSatisfied(con, f) ==
    /\ \A l \in con.links : ~(Holds(f, l[1]) /\ Holds(f, l[2]))
    /\ \A i \in 1 .. Len(con.houses) : AllDifferent(f, con.houses[i])
    /\ \A c \in con.enforce_bad \cup con.step_remove : ~Holds(f, c)

RegionsSatisfied(regions, f) ==
    LET regs == IF Len(regions) = NumCells THEN regions ELSE DefaultRegions
    IN \A l \in SeqToSet(regs) :
         LET cells == {c \in Cells : regs[c + 1] = l}
         IN Cardinality(cells) = Size => AllDifferent(f, cells)

Solutions(p) ==
    {f \in LatinGrids :
        /\ RegionsSatisfied(p.regions, f)
        /\ \A i \in 1 .. Len(p.cons) : ConstraintSatisfied(p.cons[i], f)
        /\ \A i \in 1 .. Len(p.givens) : f[p.givens[i][1]] = p.givens[i][2]}

----------------------------------------------------------------------------
(* The puzzles the model is run on: at most MaxInputs givens and           *)
(* constraints together, the givens on distinct cells.                     *)

MaxInputs == 2
MaxCount == 3

AllGivens == Cells \X Values

\* the sequences of at most n givens, on ascending cells
RECURSIVE GivenSeqs(_)
GivenSeqs(n) ==
    IF n <= 0 THEN {<<>>}
    ELSE LET shorter == GivenSeqs(n - 1)
         IN shorter \cup
            {Append(g, x) : <<g, x>> \in
                {t \in shorter \X AllGivens :
                    /\ Len(t[1]) = n - 1
                    /\ t[1] # <<>> => t[1][Len(t[1])][1] < t[2][1]}}

ConstraintChoices ==
    {<<>>}
      \cup {<<Pencilmark(c, vals)>> : c \in {0, 4}, vals \in (SUBSET Values) \ {Values}}
      \cup {<<Pencilmark(0, {v \in Values : v % 2 = 1}),
              Pencilmark(0, {v \in Values : v % 2 = 0})>>}
      \cup {<<NonRepeat({c \in Cells : CellRow(c) = CellCol(c)})>>, <<NonRepeat({1, Size})>>}
      \cup {<<EnforceOnly({c})>> : c \in {0, Candidate(Size + 1, 2)}}
      \cup {<<RemoveCandidate(c)>> : c \in {1, Candidate(Size + 1, 1)}}

Puzzles ==
    {Puzzle(<<>>, c, g) : <<c, g>> \in
        {t \in ConstraintChoices \X GivenSeqs(MaxInputs) : Len(t[1]) + Len(t[2]) <= MaxInputs}}

----------------------------------------------------------------------------
VARIABLES
    puzzle,          \* what the builder was given
    data,            \* the metadata of the built board
    board,           \* the board of the solver
    pc,              \* where the entry point stands; "done" once it returned
    stack,           \* board_stack, the top at the end
    solution_count,  \* solution_count of find_solution_count_for_board
    maximum_count,   \* the maximum_count argument
    receiver,        \* NoReceiver, or the number of the solution at which
                     \* the receiver returns false (0: never)
    received,        \* the boards handed to the receiver, in order
    result,          \* the result of the entry point
    work,            \* the entry point's own copy of the board
    todo,            \* where the loop over the candidates of `work` stands
    true_cell_values,             \* one mask per cell
    num_solutions_per_candidate,  \* one count per candidate
    solutions_seen,  \* the grids of TrueCandidatesCountReceiver::solutions_seen
    count_needed,    \* the maximum_count of the nested count
    valid,           \* whether every board operation so far reported valid
    last_op,         \* the last board operation, its arguments and its result
    num_ops,         \* the number of board operations so far
    changed,         \* `changed` of run_logical_solve
    errors,          \* SolverBuilder::errors, the diagnostics of the with_* calls
    pings,           \* the tokens the receiver's progress_ping was called with
    cancelled,       \* what Cancellation::check of the caller's token returns
    descs,           \* desc_list of run_logical_solve: the steps that acted
    supplied,        \* the arguments of the with_* calls made so far, in order
    mem,             \* the allocations behind a board and its clone
    logical_steps,   \* SolverBuilder::logical_steps
    brute_force_steps,    \* Solver::brute_force_steps of the built solver
    logical_solve_steps,  \* Solver::logical_solve_steps of the built solver
    rendered,        \* what a Display implementation wrote, or that it panicked
    request,         \* the message handle_message is working on
    responses,       \* the responses handed to send_result, in order
    cell_string,     \* the argument of parse_cell_groups
    connection,      \* the task client_connection runs for one websocket
    handlers,        \* the ThreadedHandlers of the connection and their threads
    tokens           \* the cancel and completed tokens of the messages

\* the state of the builder's step list and of the services around the solver
websocket == <<connection, handlers, tokens>>

service == <<logical_steps, brute_force_steps, logical_solve_steps, rendered,
             request, responses, cell_string, websocket>>

extras == <<errors, pings, cancelled, descs, supplied, mem, service>>

locals == <<work, todo, true_cell_values, num_solutions_per_candidate,
            solutions_seen, count_needed, valid, last_op, num_ops, changed, extras>>

vars == <<puzzle, data, board, pc, stack, solution_count, maximum_count,
          receiver, received, result, locals>>

NoReceiver == 0 - 1
\* the results of the entry points: SolutionCountResult carries a count,
\* SingleSolutionResult a board
NoBoard == [board |-> [c \in Cells |-> MaskNew], solved_count |-> 0]
Running == [kind |-> "Running", n |-> 0, b |-> NoBoard]
CountResult(kind, n) == [kind |-> kind, n |-> n, b |-> NoBoard]
SingleResult(kind, b) == [kind |-> kind, n |-> 0, b |-> b]

\* the end of find_solution_count_for_board, once the stack is empty
ExhaustedAtLeast(n) ==
    IF n = 0 THEN CountResult("None", 0) ELSE CountResult("AtLeastCount", n)
ExhaustedResult(n) ==
    IF n = 0 THEN CountResult("None", 0) ELSE CountResult("ExactCount", n)

\* where the loop over the candidates stands: the next cell to enter, the
\* cell entered last and the values of it still to try
Todo(next, cell, values) == [next |-> next, cell |-> cell, values |-> values]

\* a board operation as last_op records it
Op(name, cell, value, ok, consulted) ==
    [name |-> name, cell |-> cell, value |-> value, ok |-> ok, consulted |-> consulted]
NoOp == Op("none", 0, 0, TRUE, 0)

\* what a formatter produced: the pieces written, or a panic
Output(text) == [panicked |-> FALSE, text |-> text]
Panicked == [panicked |-> TRUE, text |-> <<>>]
NoOutput == [panicked |-> FALSE, text |-> <<"(nothing rendered)">>]

\* a message: its nonce and its command
Message(nonce, command) == [nonce |-> nonce, command |-> command]
NoRequest == Message(0, "")

\* a token's two flags: Cancellation (shared, set by cancel, read by check)
\* and the completed flag of a CancellableMessage
Token(cancel, completed) == [cancel |-> cancel, completed |-> completed]
\* a ThreadedHandler: whether its sender is open, the messages in its
\* channel, and where its thread stands with which message
Handler(open, queue, thread, message) ==
    [open |-> open, queue |-> queue, thread |-> thread, message |-> message]
\* the task of client_connection: where it stands, the message it holds,
\* the counter of make_ready, the messages taken from the websocket so far,
\* its handler, and the message whose tokens the handler holds (0: the
\* tokens ThreadedHandler::new made)
Connection(at, message, counter, taken, handler, last_message) ==
    [at |-> at, message |-> message, counter |-> counter, taken |-> taken,
     handler |-> handler, last_message |-> last_message]

\* no websocket connection
NoWebsocket ==
    /\ connection = Connection("none", 0, 0, 0, 0, 0)
    /\ handlers = <<>>
    /\ tokens = <<>>

\* the step lists and the services before anything used them
NoService ==
    /\ logical_steps = <<>>
    /\ brute_force_steps = <<>>
    /\ logical_solve_steps = <<>>
    /\ rendered = NoOutput
    /\ request = NoRequest
    /\ responses = <<>>
    /\ cell_string = <<>>
    /\ NoWebsocket

\* the locals before an entry point sets them
NoLocals ==
    /\ work = NoBoard
    /\ todo = Todo(0, 0, <<>>)
    /\ true_cell_values = [c \in Cells |-> MaskNew]
    /\ num_solutions_per_candidate = [c \in Cands |-> 0]
    /\ solutions_seen = {}
    /\ count_needed = 0
    /\ valid = TRUE
    /\ last_op = NoOp
    /\ num_ops = 0
    /\ changed = FALSE
    /\ errors = <<>>
    /\ pings = <<>>
    /\ cancelled = FALSE
    /\ descs = <<>>
    /\ supplied = <<>>
    /\ mem = <<>>
    /\ NoService

\* a solver built from one of the puzzles
InitSolver ==
    /\ puzzle \in Puzzles
    /\ \E s \in {Build(puzzle)} :
          /\ s.ok
          /\ data = s.data
          /\ board = s.board

(* find_solution_count(maximum_count, receiver) *)
InitCount ==
    /\ InitSolver
    /\ NoLocals
    /\ pc = "run"
    /\ stack = <<board>>
    /\ solution_count = 0
    /\ maximum_count \in 0 .. MaxCount
    /\ receiver \in {NoReceiver} \cup (0 .. MaxCount - 1)
    /\ received = <<>>
    /\ result = Running

\* a search that goes on after the receiver returned false
ReturnsAtMaximum(n, maximum, refused) == n >= maximum
\* whether the search returns AtLeastCount(n) after the n-th solution:
\* the receiver returned false (`refused`) or the maximum is reached
ReturnsAfterSolution(n, maximum, refused) == refused \/ n >= maximum

\* one iteration of the loop of find_solution_count_for_board, but for what
\* the receiver does with the solution
CountStep ==
    /\ pc = "run"
    /\ stack # <<>>
    /\ LET rest == SubSeq(stack, 1, Len(stack) - 1)
       IN \E r \in {RunBruteForceLogic(stack[Len(stack)], data)} :
          IF ~r.ok
            THEN /\ stack' = rest
                 /\ UNCHANGED <<pc, solution_count, received, result>>
          ELSE IF IsSolved(r.b)
            THEN LET n == solution_count + 1
                     stop == receiver # NoReceiver /\ receiver = Len(received) + 1
                 IN /\ solution_count' = n
                    /\ received' = IF receiver # NoReceiver
                                     THEN Append(received, r.b) ELSE received
                    /\ stack' = rest
                    /\ IF ReturnsAfterSolution(n, maximum_count, stop)
                         THEN /\ result' = CountResult("AtLeastCount", n)
                              /\ pc' = "done"
                         ELSE UNCHANGED <<pc, result>>
          ELSE \E cell \in {FindBestBruteForceCell(r.b, data)} :
                  IF cell # NoCell
                    THEN /\ stack' = PushValues(rest, r.b, data, cell,
                                                SortedSeq(r.b.board[cell].v))
                         /\ UNCHANGED <<pc, solution_count, received, result>>
                    ELSE /\ result' = CountResult("Error", 0)
                         /\ pc' = "done"
                         /\ UNCHANGED <<stack, solution_count, received>>
    /\ UNCHANGED <<puzzle, data, board, maximum_count, receiver>>

\* one iteration of the loop, with a receiver that only says when to stop
CountIteration == CountStep /\ UNCHANGED locals

\* the loop ends with an empty stack
CountExhausted ==
    /\ pc = "run"
    /\ stack = <<>>
    /\ result' = ExhaustedResult(solution_count)
    /\ pc' = "done"
    /\ UNCHANGED <<puzzle, data, board, stack, solution_count, maximum_count,
                   receiver, received, locals>>

NextCount == CountIteration \/ CountExhausted

SpecCount == InitCount /\ [][NextCount]_vars

----------------------------------------------------------------------------
(* Properties of find_solution_count.                                       *)

NumSolutions == Cardinality(Solutions(puzzle))

ReceiverStopped == receiver # NoReceiver /\ receiver > 0 /\ Len(received) = receiver

UniqueIffExactOne ==
    (pc = "done" /\ maximum_count = 2 /\ receiver = NoReceiver) =>
        (result = CountResult("ExactCount", 1) <=> NumSolutions = 1)

UniqueFound ==
    /\ pc = "done" /\ maximum_count = 2 /\ receiver = NoReceiver
    /\ result = CountResult("ExactCount", 1)
    /\ Len(puzzle.givens) + Len(puzzle.cons) > 0

----------------------------------------------------------------------------
(* find_first_solution.  The stack holds pairs <<board, cell>>.            *)

InitFirst ==
    /\ InitSolver
    /\ NoLocals
    /\ pc = "first"
    /\ stack = << <<board, 0>> >>
    /\ solution_count = 0
    /\ maximum_count = 0
    /\ receiver = NoReceiver
    /\ received = <<>>
    /\ result = Running

\* the inner loop of find_first_solution: the first unsolved cell from
\* `cell` on, or NoCell when every one of them is solved
NextUnsolved(b, cell) ==
    LET open == {c \in cell .. NumCells - 1 : ~MaskIsSolved(b.board[c])}
    IN IF open = {} THEN NoCell ELSE SetMin(open)

\* the two boards find_first_solution pushes for the cell: the board
\* without the smallest value, then the board with it
PushBranchesMax(stk, b, d, cell) ==
    LET value == CHOOSE v \in b.board[cell].v : \A w \in b.board[cell].v : w <= v
    IN The({The({IF set.ok THEN Append(s1, <<set.b, cell>>) ELSE s1 :
                 set \in {SetSolved(b, d, cell, value)}}) :
            s1 \in {The({IF cleared.ok THEN Append(stk, <<cleared.b, cell>>) ELSE stk :
                         cleared \in {ClearValue(b, cell, value)}})}})
PushBranches(stk, b, d, cell) ==
    LET value == MaskMin(b.board[cell])
    IN The({The({IF set.ok THEN Append(s1, <<set.b, cell>>) ELSE s1 :
                 set \in {SetSolved(b, d, cell, value)}}) :
            s1 \in {The({IF cleared.ok THEN Append(stk, <<cleared.b, cell>>) ELSE stk :
                         cleared \in {ClearValue(b, cell, value)}})}})

\* one iteration of the outer loop of find_first_solution
FirstIteration ==
    /\ pc = "first"
    /\ stack # <<>>
    /\ LET rest == SubSeq(stack, 1, Len(stack) - 1)
           top == stack[Len(stack)]
       IN \E r \in {RunBruteForceLogic(top[1], data)} :
          IF ~r.ok
            THEN /\ stack' = rest
                 /\ UNCHANGED <<pc, result>>
          ELSE IF IsSolved(r.b)
            THEN /\ result' = SingleResult("Solved", r.b)
                 /\ pc' = "done"
                 /\ stack' = rest
          ELSE \E cell \in {NextUnsolved(r.b, top[2])} :
                  /\ stack' = IF cell = NoCell THEN rest
                              ELSE PushBranches(rest, r.b, data, cell)
                  /\ UNCHANGED <<pc, result>>
    /\ UNCHANGED <<puzzle, data, board, solution_count, maximum_count, receiver,
                   received, locals>>

\* the stack is empty: SingleSolutionResult::None
FirstExhausted ==
    /\ pc = "first"
    /\ stack = <<>>
    /\ result' = SingleResult("None", NoBoard)
    /\ pc' = "done"
    /\ UNCHANGED <<puzzle, data, board, stack, solution_count, maximum_count,
                   receiver, received, locals>>

NextFirst == FirstIteration \/ FirstExhausted

SpecFirst == InitFirst /\ [][NextFirst]_vars

\* f comes before g when the cell values are compared in cell-index order
LexLess(f, g) ==
    \E c \in Cells : f[c] < g[c] /\ \A d \in 0 .. c - 1 : f[d] = g[d]

\* C3: when the puzzle has a solution, find_first_solution returns the
\* lexicographically first one; it returns None only when there is none.
FirstIsLexFirst ==
    pc = "done" =>
        /\ Solutions(puzzle) # {} =>
              /\ result.kind = "Solved"
              /\ GridOf(result.b) \in Solutions(puzzle)
              /\ \A g \in Solutions(puzzle) : g # GridOf(result.b) => LexLess(GridOf(result.b), g)
        /\ result.kind = "None" => Solutions(puzzle) = {}

FirstOfSeveral ==
    pc = "done" /\ result.kind = "Solved" /\ Cardinality(Solutions(puzzle)) >= 2
        /\ Len(puzzle.givens) + Len(puzzle.cons) > 0

----------------------------------------------------------------------------
(* find_true_candidates, with find_random_solution_for_board as its nested *)
(* search.  ValueMask::random is any value of the mask.                    *)

\* the true_cell_values find_true_candidates starts from
InitialTrueCellValues(b) ==
    [c \in Cells |-> IF MaskIsSolved(b.board[c]) THEN b.board[c] ELSE MaskNew]

\* the masks of a solution joined into true_cell_values
AddSolutionKeepOld(tcv, sol) == tcv
AddSolution(tcv, sol) ==
    [c \in Cells |-> MaskOr(tcv[c], MaskUnsolved(sol.board[c]))]

\* the loop of keep_mask over the cells, from `cell` on: stops at the first
\* cell left empty
RECURSIVE KeepTrueValues(_, _, _)
KeepTrueValues(b, tcv, cell) ==
    IF cell = NumCells THEN Res(TRUE, b)
    ELSE The({IF r.ok THEN KeepTrueValues(r.b, tcv, cell + 1) ELSE r :
              r \in {KeepMask(b, cell, tcv[cell])}})

\* the end of find_true_candidates
TrueCandidatesResult(b, d, tcv) ==
    The({IF ~k.ok THEN SingleResult("None", NoBoard)
         ELSE The({IF r.res = "Invalid" THEN SingleResult("None", NoBoard)
                   ELSE SingleResult("Solved", r.b) :
                   r \in {AllNakedSingles(k.b, d)}}) :
         k \in {KeepTrueValues(b, tcv, 0)}})

InitTrue ==
    /\ InitSolver
    /\ NoLocals
    /\ pc = "start"
    /\ stack = <<>>
    /\ solution_count = 0
    /\ maximum_count = 0
    /\ receiver = NoReceiver
    /\ received = <<>>
    /\ result = Running

\* the brute-force logic on the copy of the board, and the early returns
TrueStart ==
    /\ pc = "start"
    /\ \E r \in {RunBruteForceLogic(board, data)} :
          IF ~r.ok
            THEN /\ result' = SingleResult("None", NoBoard)
                 /\ pc' = "done"
                 /\ UNCHANGED <<work, true_cell_values>>
          ELSE IF IsSolved(r.b)
            THEN /\ result' = SingleResult("Solved", r.b)
                 /\ pc' = "done"
                 /\ UNCHANGED <<work, true_cell_values>>
          ELSE /\ work' = r.b
               /\ true_cell_values' = InitialTrueCellValues(r.b)
               /\ pc' = "loop"
               /\ UNCHANGED result
    /\ UNCHANGED <<puzzle, data, board, stack, solution_count, maximum_count,
                   receiver, received, todo, num_solutions_per_candidate,
                   solutions_seen, count_needed, valid, last_op, num_ops, changed, extras>>

\* the outer loop enters the next cell: a solved cell is skipped, of another
\* the values not yet known to be true are to be tried
TrueCell ==
    /\ pc = "loop"
    /\ todo.values = <<>>
    /\ todo.next < NumCells
    /\ LET mask == work.board[todo.next]
           untried == MaskAnd(mask, MaskNot(true_cell_values[todo.next]))
       IN todo' = Todo(todo.next + 1, todo.next,
                       IF MaskIsSolved(mask) THEN <<>> ELSE SortedSeq(untried.v))
    /\ UNCHANGED <<puzzle, data, board, pc, stack, solution_count, maximum_count,
                   receiver, received, result, work, true_cell_values,
                   num_solutions_per_candidate, solutions_seen, count_needed, valid, last_op, num_ops, changed, extras>>

\* the inner loop tries the next value of the cell
TrueValue ==
    /\ pc = "loop"
    /\ todo.values # <<>>
    /\ \E r \in {SetSolved(work, data, todo.cell, Head(todo.values))} :
          IF r.ok
            THEN /\ stack' = <<r.b>>
                 /\ pc' = "search"
                 /\ UNCHANGED todo
            ELSE /\ todo' = [todo EXCEPT !.values = Tail(@)]
                 /\ UNCHANGED <<stack, pc>>
    /\ UNCHANGED <<puzzle, data, board, solution_count, maximum_count,
                   receiver, received, result, work, true_cell_values,
                   num_solutions_per_candidate, solutions_seen, count_needed, valid, last_op, num_ops, changed, extras>>

\* find_random_solution_for_board returns `res`: to the caller of
\* find_random_solution (pc = "random"), or to the loop of
\* find_true_candidates (pc = "search"), which joins a solution into
\* true_cell_values and goes on with the next value
RandomReturn(res) ==
    /\ stack' = <<>>
    /\ IF pc = "random"
         THEN /\ result' = res
              /\ pc' = "done"
              /\ UNCHANGED <<todo, true_cell_values>>
         ELSE /\ true_cell_values' = IF res.kind = "Solved"
                                       THEN AddSolution(true_cell_values, res.b)
                                       ELSE true_cell_values
              /\ todo' = [todo EXCEPT !.values = Tail(@)]
              /\ pc' = "loop"
              /\ UNCHANGED result

\* one iteration of the loop of find_random_solution_for_board
RandomIteration ==
    /\ pc \in {"random", "search"}
    /\ stack # <<>>
    /\ LET rest == SubSeq(stack, 1, Len(stack) - 1)
       IN \E r \in {RunBruteForceLogic(stack[Len(stack)], data)} :
          IF ~r.ok
            THEN /\ stack' = rest
                 /\ UNCHANGED <<pc, todo, true_cell_values, result>>
          ELSE IF IsSolved(r.b)
            THEN RandomReturn(SingleResult("Solved", r.b))
          ELSE \E cell \in {FindBestBruteForceCell(r.b, data)} :
                  IF cell = NoCell
                    THEN RandomReturn(SingleResult("Error", NoBoard))
                    ELSE \E value \in r.b.board[cell].v :
                         \E cleared \in {ClearValue(r.b, cell, value)},
                            set \in {SetSolved(r.b, data, cell, value)} :
                            \E s1 \in {IF cleared.ok THEN Append(rest, cleared.b) ELSE rest} :
                            /\ stack' = IF set.ok THEN Append(s1, set.b) ELSE s1
                            /\ UNCHANGED <<pc, todo, true_cell_values, result>>
    /\ UNCHANGED <<puzzle, data, board, solution_count, maximum_count,
                   receiver, received, work, num_solutions_per_candidate,
                   solutions_seen, count_needed, valid, last_op, num_ops, changed, extras>>

\* the search ends without a solution
RandomExhausted ==
    /\ pc \in {"random", "search"}
    /\ stack = <<>>
    /\ RandomReturn(SingleResult("None", NoBoard))
    /\ UNCHANGED <<puzzle, data, board, solution_count, maximum_count,
                   receiver, received, work, num_solutions_per_candidate,
                   solutions_seen, count_needed, valid, last_op, num_ops, changed, extras>>

\* after the last cell: keep the true values and return
TrueFinish ==
    /\ pc = "loop"
    /\ todo.values = <<>>
    /\ todo.next = NumCells
    /\ result' = TrueCandidatesResult(work, data, true_cell_values)
    /\ pc' = "done"
    /\ UNCHANGED <<puzzle, data, board, stack, solution_count, maximum_count,
                   receiver, received, locals>>

NextTrue ==
    \/ TrueStart
    \/ TrueCell
    \/ TrueValue
    \/ RandomIteration
    \/ RandomExhausted
    \/ TrueFinish

SpecTrue == InitTrue /\ [][NextTrue]_vars

\* the values cell c takes in the solutions of the puzzle
TrueValues(c) == {f[c] : f \in Solutions(puzzle)}

\* C4: the board find_true_candidates returns keeps in every cell exactly
\* the values the cell takes in at least one solution of the puzzle, and
\* a puzzle with a solution gets such a board.
TrueCandidatesExact ==
    pc = "done" =>
        /\ result.kind = "Solved" =>
              \A c \in Cells : result.b.board[c].v = TrueValues(c)
        /\ Solutions(puzzle) # {} => result.kind = "Solved"

TrueCandidatesSeveral ==
    /\ pc = "done"
    /\ result.kind = "Solved"
    /\ ~IsSolved(result.b)
    /\ \E c \in Cells : Cardinality(result.b.board[c].v) = 2

----------------------------------------------------------------------------
(* find_true_candidates_with_count(maximum_count): the nested search is    *)
(* find_solution_count_for_board with a TrueCandidatesCountReceiver.       *)

\* the counts after TrueCandidatesCountReceiver::receive took a new solution
CountSolution(counts, sol) ==
    [cand \in Cands |->
        IF MaskValue(sol.board[CandCell(cand)]) = CandValue(cand)
          THEN counts[cand] + 1 ELSE counts[cand]]

\* the end of find_true_candidates_with_count
TrueCountResult(b, d, tcv) ==
    The({IF ~k.ok THEN SingleResult("None", NoBoard)
         ELSE The({IF r.res = "Invalid" THEN SingleResult("None", NoBoard)
                   ELSE IF IsSolved(r.b) THEN SingleResult("Solved", r.b)
                   ELSE SingleResult("Candidates", r.b) :
                   r \in {AllNakedSingles(k.b, d)}}) :
         k \in {KeepTrueValues(b, tcv, 0)}})

InitTrueCount ==
    /\ InitSolver
    /\ NoLocals
    /\ pc = "start"
    /\ stack = <<>>
    /\ solution_count = 0
    /\ maximum_count \in 0 .. MaxCount
    /\ receiver = NoReceiver
    /\ received = <<>>
    /\ result = Running

\* the brute-force logic on the copy of the board, and the early returns
TrueCountStart ==
    /\ pc = "start"
    /\ \E r \in {RunBruteForceLogic(board, data)} :
          IF ~r.ok
            THEN /\ result' = SingleResult("None", NoBoard)
                 /\ pc' = "done"
                 /\ UNCHANGED <<work, true_cell_values>>
          ELSE IF IsSolved(r.b)
            THEN /\ result' = SingleResult("Solved", r.b)
                 /\ pc' = "done"
                 /\ UNCHANGED <<work, true_cell_values>>
          ELSE /\ work' = r.b
               /\ true_cell_values' = InitialTrueCellValues(r.b)
               /\ pc' = "loop"
               /\ UNCHANGED result
    /\ UNCHANGED <<puzzle, data, board, stack, solution_count, maximum_count,
                   receiver, received, todo, num_solutions_per_candidate,
                   solutions_seen, count_needed, valid, last_op, num_ops, changed, extras>>

\* the outer loop enters the next cell: a solved cell is skipped, of another
\* every value is to be tried
TrueCountCell ==
    /\ pc = "loop"
    /\ todo.values = <<>>
    /\ todo.next < NumCells
    /\ LET mask == work.board[todo.next]
       IN todo' = Todo(todo.next + 1, todo.next,
                       IF MaskIsSolved(mask) THEN <<>> ELSE SortedSeq(mask.v))
    /\ UNCHANGED <<puzzle, data, board, pc, stack, solution_count, maximum_count,
                   receiver, received, result, work, true_cell_values,
                   num_solutions_per_candidate, solutions_seen, count_needed, valid, last_op, num_ops, changed, extras>>

\* the inner loop takes the next value of the cell: a candidate already at
\* maximum_count is skipped, as is one set_solved refuses
TrueCountValue ==
    /\ pc = "loop"
    /\ todo.values # <<>>
    /\ LET cur_candidate == Candidate(todo.cell, Head(todo.values))
           cur_candidate_count == num_solutions_per_candidate[cur_candidate]
       IN IF cur_candidate_count >= maximum_count
            THEN /\ todo' = [todo EXCEPT !.values = Tail(@)]
                 /\ UNCHANGED <<stack, pc, count_needed, solution_count>>
            ELSE \E r \in {SetSolved(work, data, todo.cell, Head(todo.values))} :
                 IF r.ok
                   THEN /\ stack' = <<r.b>>
                        /\ solution_count' = 0
                        /\ count_needed' = maximum_count - cur_candidate_count
                        /\ pc' = "count"
                        /\ UNCHANGED todo
                   ELSE /\ todo' = [todo EXCEPT !.values = Tail(@)]
                        /\ UNCHANGED <<stack, pc, count_needed, solution_count>>
    /\ UNCHANGED <<puzzle, data, board, maximum_count, receiver, received, result,
                   work, true_cell_values, num_solutions_per_candidate,
                   solutions_seen, valid, last_op, num_ops, changed, extras>>

\* one iteration of the loop of find_solution_count_for_board, its
\* maximum_count being count_needed and its receiver the one above
NestedCountIteration ==
    /\ pc = "count"
    /\ stack # <<>>
    /\ LET rest == SubSeq(stack, 1, Len(stack) - 1)
           candidate == Candidate(todo.cell, Head(todo.values))
       IN \E r \in {RunBruteForceLogic(stack[Len(stack)], data)} :
          IF ~r.ok
            THEN /\ stack' = rest
                 /\ UNCHANGED <<pc, todo, solution_count, true_cell_values,
                                num_solutions_per_candidate, solutions_seen>>
          ELSE IF IsSolved(r.b)
            THEN \E counts \in {IF r.b \in solutions_seen
                                  THEN num_solutions_per_candidate
                                  ELSE CountSolution(num_solutions_per_candidate, r.b)} :
                 LET n == solution_count + 1
                     go_on == r.b \in solutions_seen \/ counts[candidate] < maximum_count
                 IN /\ solution_count' = n
                    /\ num_solutions_per_candidate' = counts
                    /\ true_cell_values' = IF r.b \in solutions_seen THEN true_cell_values
                                           ELSE AddSolution(true_cell_values, r.b)
                    /\ solutions_seen' = solutions_seen \cup {r.b}
                    /\ IF ~go_on \/ n >= count_needed
                         THEN /\ stack' = <<>>
                              /\ todo' = [todo EXCEPT !.values = Tail(@)]
                              /\ pc' = "loop"
                         ELSE /\ stack' = rest
                              /\ UNCHANGED <<pc, todo>>
          ELSE \E cell \in {FindBestBruteForceCell(r.b, data)} :
                  IF cell # NoCell
                    THEN /\ stack' = PushValues(rest, r.b, data, cell,
                                                SortedSeq(r.b.board[cell].v))
                         /\ UNCHANGED <<pc, todo, solution_count, true_cell_values,
                                        num_solutions_per_candidate, solutions_seen>>
                    ELSE /\ stack' = <<>>
                         /\ todo' = [todo EXCEPT !.values = Tail(@)]
                         /\ pc' = "loop"
                         /\ UNCHANGED <<solution_count, true_cell_values,
                                        num_solutions_per_candidate, solutions_seen>>
    /\ UNCHANGED <<puzzle, data, board, maximum_count, receiver, received, result,
                   work, count_needed, valid, last_op, num_ops, changed, extras>>

\* the nested count ends with an empty stack
NestedCountExhausted ==
    /\ pc = "count"
    /\ stack = <<>>
    /\ todo' = [todo EXCEPT !.values = Tail(@)]
    /\ pc' = "loop"
    /\ UNCHANGED <<puzzle, data, board, stack, solution_count, maximum_count,
                   receiver, received, result, work, true_cell_values,
                   num_solutions_per_candidate, solutions_seen, count_needed, valid, last_op, num_ops, changed, extras>>

\* after the last cell: keep the true values and return
TrueCountFinish ==
    /\ pc = "loop"
    /\ todo.values = <<>>
    /\ todo.next = NumCells
    /\ result' = TrueCountResult(work, data, true_cell_values)
    /\ pc' = "done"
    /\ UNCHANGED <<puzzle, data, board, stack, solution_count, maximum_count,
                   receiver, received, locals>>

NextTrueCount ==
    \/ TrueCountStart
    \/ TrueCountCell
    \/ TrueCountValue
    \/ NestedCountIteration
    \/ NestedCountExhausted
    \/ TrueCountFinish

SpecTrueCount == InitTrueCount /\ [][NextTrueCount]_vars

\* the number of solutions of the puzzle that hold the candidate
NumSolutionsWith(cand) == Cardinality({f \in Solutions(puzzle) : Holds(f, cand)})

Min(a, b) == IF a <= b THEN a ELSE b

\* C5: find_true_candidates_with_count(cap) returns for every candidate the
\* count min(cap, number of solutions in which the cell holds the value);
\* stated here up to the cap, so that a count above the cap stands for the
\* cap: min(cap, count) = min(cap, number of solutions with the candidate).
CountsReachCapOrExact ==
    (pc = "done" /\ result.kind = "Candidates") =>
        \A cand \in Cands :
            Min(maximum_count, num_solutions_per_candidate[cand])
                = Min(maximum_count, NumSolutionsWith(cand))

----------------------------------------------------------------------------
(* The public operations of Board, applied in any order to the board of a  *)
(* built solver.  The puzzles have no givens (a given is a set_solved of   *)
(* the builder); the operations address the cells of OpCells.              *)

MaxOps == 2

OpCells == {0, 1, Size + 1}
OpCands == {Candidate(c, v) : c \in OpCells, v \in Values}
\* the masks handed to keep_mask, and those handed to set_mask, which
\* asserts that its mask does not carry the solved flag
KeepMasks == {Mask(vals, flag) : vals \in SUBSET Values, flag \in BOOLEAN}
SetMasks == {Mask(vals, FALSE) : vals \in SUBSET Values}

InitBoard ==
    /\ puzzle \in {p \in Puzzles : p.givens = <<>>}
    /\ \E s \in {Build(puzzle)} :
          /\ s.ok
          /\ data = s.data
          /\ board = s.board
          /\ work = s.board
    /\ todo = Todo(0, 0, <<>>)
    /\ true_cell_values = [c \in Cells |-> MaskNew]
    /\ num_solutions_per_candidate = [c \in Cands |-> 0]
    /\ solutions_seen = {}
    /\ count_needed = 0
    /\ valid = TRUE
    /\ last_op = NoOp
    /\ num_ops = 0
    /\ changed = FALSE
    /\ errors = <<>>
    /\ pings = <<>>
    /\ cancelled = FALSE
    /\ descs = <<>>
    /\ supplied = <<>>
    /\ mem = <<>>
    /\ NoService
    /\ pc = "board"
    /\ stack = <<>>
    /\ solution_count = 0
    /\ maximum_count = 0
    /\ receiver = NoReceiver
    /\ received = <<>>
    /\ result = Running

\* what every operation leaves alone
BoardFrame ==
    UNCHANGED <<puzzle, data, board, pc, stack, solution_count, maximum_count,
                receiver, received, result, todo, true_cell_values,
                num_solutions_per_candidate, solutions_seen, count_needed, changed,
                extras>>

\* the operation named `name` left the board r.b and reported r.ok
Operated(name, cell, value, r, consulted) ==
    /\ work' = r.b
    /\ valid' = (valid /\ r.ok)
    /\ last_op' = Op(name, cell, value, r.ok, consulted)
    /\ num_ops' = num_ops + 1
    /\ BoardFrame

DoSetSolved ==
    /\ pc = "board"
    /\ num_ops < MaxOps
    /\ \E cell \in OpCells, value \in Values :
       \E t \in {SetSolvedTrace(work, data, cell, value)} :
          Operated("set_solved", cell, value, t, t.consulted)

DoClearValue ==
    /\ pc = "board"
    /\ num_ops < MaxOps
    /\ \E cell \in OpCells, value \in Values :
       \E r \in {ClearValue(work, cell, value)} :
          Operated("clear_value", cell, value, r, 0)

DoClearCandidate ==
    /\ pc = "board"
    /\ num_ops < MaxOps
    /\ \E cand \in OpCands :
       \E r \in {ClearCandidate(work, cand)} :
          Operated("clear_candidate", CandCell(cand), CandValue(cand), r, 0)

\* clear_candidates with two candidates
DoClearCandidates ==
    /\ pc = "board"
    /\ num_ops < MaxOps
    /\ \E c1 \in OpCands, c2 \in OpCands :
          /\ c1 < c2
          /\ \E r \in {ClearCandidates(work, <<c1, c2>>)} :
                Operated("clear_candidates", CandCell(c1), CandValue(c1), r, 0)

DoKeepMask ==
    /\ pc = "board"
    /\ num_ops < MaxOps
    /\ \E cell \in OpCells, mask \in KeepMasks :
       \E r \in {KeepMask(work, cell, mask)} :
          Operated("keep_mask", cell, 0, r, 0)

DoSetMask ==
    /\ pc = "board"
    /\ num_ops < MaxOps
    /\ \E cell \in OpCells, mask \in SetMasks :
       \E r \in {SetMask(work, cell, mask)} :
          Operated("set_mask", cell, 0, r, 0)

NextBoard ==
    \/ DoSetSolved
    \/ DoClearValue
    \/ DoClearCandidate
    \/ DoClearCandidates
    \/ DoKeepMask
    \/ DoSetMask

SpecBoard == InitBoard /\ [][NextBoard]_vars

\* C6: whenever set_solved(cell, v) reports success, no candidate
\* weak-linked to (cell, v) remains on the board, and the enforce of every
\* registered constraint was called for (cell, v) and none reported invalid.
SetSolvedSuccess ==
    (last_op.name = "set_solved" /\ last_op.ok) =>
        /\ \A d \in data.weak_links[Candidate(last_op.cell, last_op.value)] :
              ~MaskHas(work.board[CandCell(d)], CandValue(d))
        /\ last_op.consulted = Len(data.constraints)
        /\ \A i \in 1 .. Len(data.constraints) :
              Enforce(data.constraints[i], last_op.cell, last_op.value)

\* a successful set_solved on a board with a constraint that links the
\* candidate beyond its row, column and cell
SetSolvedLinked ==
    /\ last_op.name = "set_solved"
    /\ last_op.ok
    /\ Len(data.constraints) > 0
    /\ Candidate(2 * Size + 2, last_op.value)
           \in data.weak_links[Candidate(last_op.cell, last_op.value)]
    /\ last_op.cell = 0

\* the number of cells whose mask carries the solved flag
NumSolvedFlags(b) == Cardinality({c \in Cells : MaskIsSolved(b.board[c])})

\* C7: after any sequence of public board operations, valid or not, the
\* solved counter equals the number of cells whose mask carries the solved
\* flag.
SolvedCountIsFlagCount == work.solved_count = NumSolvedFlags(work)

\* C8: on a board reached from a built board through operations that all
\* reported valid, every cell whose mask carries the solved flag holds
\* exactly one value.
SolvedCellsAreSingle ==
    valid => \A c \in Cells : MaskIsSolved(work.board[c]) => MaskCount(work.board[c]) = 1

\* a valid operation acted on a cell that was solved before
SolvedCellOperated ==
    /\ valid
    /\ num_ops = 2
    /\ last_op.name \in {"clear_value", "keep_mask"}
    /\ MaskIsSolved(work.board[last_op.cell])

----------------------------------------------------------------------------
\* C9: every cell has at least one candidate on every board an operation is
\* applied to, the board of a built solver first: here the boards of the
\* stack of find_solution_count, each of which the brute-force logic is
\* about to run on.
OperatedBoardsHaveCandidates ==
    pc = "run" =>
        \A i \in 1 .. Len(stack) : \A c \in Cells : ~MaskIsEmpty(stack[i].board[c])

----------------------------------------------------------------------------
(* find_random_solution and run_logical_solve, and the specification of    *)
(* the four entry points that report a solved board.                       *)

InitRandom ==
    /\ InitSolver
    /\ NoLocals
    /\ pc = "random"
    /\ stack = <<board>>
    /\ solution_count = 0
    /\ maximum_count = 0
    /\ receiver = NoReceiver
    /\ received = <<>>
    /\ result = Running

InitLogical ==
    /\ InitSolver
    /\ NoLocals
    /\ pc = "logical"
    /\ stack = <<>>
    /\ solution_count = 0
    /\ maximum_count = 0
    /\ receiver = NoReceiver
    /\ received = <<>>
    /\ result = Running

\* Solver::run_single_logical_step
RunSingleLogicalStep(b, d) == RunFirstStep(LogicalSolveSteps, b, d)

\* a step description: the step that acted, what it reported and the board
\* it left (which cell it set or which candidates it removed)
StepDesc(r) == [step |-> r.step, res |-> r.res, b |-> r.b]
SolvedDesc(b) == [step |-> "Solved!", res |-> "None", b |-> b]

\* a solve that forgets that a step acted
LogicalSolveEndNone(ch) == "None"
\* the end of run_logical_solve, after the loop: Changed if some step acted
LogicalSolveEnd(ch) == IF ch THEN "Changed" ELSE "None"

\* one iteration of the loop of run_logical_solve, on the solver's own board
LogicalSolveIteration ==
    /\ pc = "logical"
    /\ IF IsSolved(board)
         THEN /\ result' = SingleResult("Solved", board)
              /\ descs' = Append(descs, SolvedDesc(board))
              /\ pc' = "done"
              /\ UNCHANGED <<board, changed>>
         ELSE \E r \in {RunSingleLogicalStep(board, data)} :
              /\ board' = r.b
              /\ IF r.res = "None"
                   THEN /\ result' = SingleResult(LogicalSolveEnd(changed), r.b)
                        /\ pc' = "done"
                        /\ UNCHANGED <<changed, descs>>
                   ELSE /\ changed' = TRUE
                        /\ descs' = Append(descs, StepDesc(r))
                        /\ IF r.res = "Invalid"
                             THEN /\ result' = SingleResult("Invalid", r.b)
                                  /\ pc' = "done"
                             ELSE UNCHANGED <<result, pc>>
    /\ UNCHANGED <<puzzle, data, stack, solution_count, maximum_count, receiver,
                   received, work, todo, true_cell_values,
                   num_solutions_per_candidate, solutions_seen, count_needed,
                   valid, last_op, num_ops, errors, pings, cancelled, supplied, mem, service>>

InitSolved == InitCount \/ InitFirst \/ InitRandom \/ InitLogical

NextSolved ==
    \/ CountIteration
    \/ CountExhausted
    \/ FirstIteration
    \/ FirstExhausted
    \/ RandomIteration
    \/ RandomExhausted
    \/ LogicalSolveIteration

SpecSolved == InitSolved /\ [][NextSolved]_vars

\* the boards reported solved so far
ReportedSolved ==
    (IF result.kind = "Solved" THEN {result.b} ELSE {}) \cup SeqToSet(received)

\* C10: on every board reported solved (returned by find_first_solution or
\* find_random_solution, handed to a solution receiver, or ending a logical
\* solve with Solved) each house contains every value 1..N exactly once.
SolvedHousesComplete ==
    \A b \in ReportedSolved :
        \A h \in 1 .. Len(data.houses) :
            /\ \A c \in data.houses[h] :
                  MaskIsSolved(b.board[c]) /\ MaskCount(b.board[c]) = 1
            /\ \A v \in Values :
                  Cardinality({c \in data.houses[h] : MaskValue(b.board[c]) = v}) = 1

\* a logical solve ends with Solved on a board with a constraint's house
LogicalSolveSolved ==
    /\ pc = "done"
    /\ changed
    /\ result.kind = "Solved"
    /\ Len(puzzle.cons) > 0

----------------------------------------------------------------------------
(* SolverBuilder: the with_* calls and build.  `puzzle` holds the builder's *)
(* regions, constraints and givens, `errors` its diagnostics, `num_ops`     *)
(* the number of with_* calls made so far.                                  *)

MaxCalls == 2

\* a constraint that only implements Constraint::get_weak_links
LinkOnly(pairs) == Constraint("LinkOnly", pairs, <<>>, {}, {})

\* the Result of SolverBuilder::build: Ok, or Err with the diagnostics
BuildResult(kind, msgs) == [kind |-> kind, n |-> Len(msgs), b |-> NoBoard, msgs |-> msgs]

NoData ==
    [houses |-> <<>>, weak_links |-> [c \in Cands |-> {}],
     exclusive_cells |-> [c \in Cells |-> {}], powerful_cells |-> <<>>,
     constraints |-> <<>>]

\* SolverBuilder::with_no_regions
WithNoRegions(p) == [p EXCEPT !.regions = [i \in 1 .. NumCells |-> 0]]

RegionCount(regions, value) == Cardinality({i \in 1 .. Len(regions) : regions[i] = value})

\* with_regions without the count of each label
WithRegionsUncounted(p, errs, regions) ==
    IF \/ regions = <<>>
       \/ Len(regions) = NumCells /\ \A i \in 1 .. Len(regions) : regions[i] = regions[1]
      THEN [p |-> WithNoRegions(p), errors |-> errs]
    ELSE IF Len(regions) # NumCells
      THEN [p |-> p,
            errors |-> Append(errs, <<"Region vector is of length", Len(regions), NumCells>>)]
    ELSE [p |-> [p EXCEPT !.regions = regions], errors |-> errs]
\* SolverBuilder::with_regions: the builder's fields and errors it leaves
WithRegionsResult(p, errs, regions) ==
    LET bad == {v \in 0 .. Size - 1 : RegionCount(regions, v) # Size}
    IN IF \/ regions = <<>>
          \/ Len(regions) = NumCells /\ \A i \in 1 .. Len(regions) : regions[i] = regions[1]
         THEN [p |-> WithNoRegions(p), errors |-> errs]
       ELSE IF Len(regions) # NumCells
         THEN [p |-> p,
               errors |-> Append(errs, <<"Region vector is of length", Len(regions), NumCells>>)]
       ELSE IF bad # {}
         THEN [p |-> p,
               errors |-> Append(errs, <<"Region vector contains instances",
                                         RegionCount(regions, SetMin(bad)), SetMin(bad), Size>>)]
       ELSE [p |-> [p EXCEPT !.regions = regions], errors |-> errs]

\* char::to_digit(10); NoDigit for a character that is no digit
Digits == <<"0", "1", "2", "3", "4", "5", "6", "7", "8", "9">>
NoDigit == 0 - 1
ToDigit(ch) ==
    IF \E i \in 1 .. Len(Digits) : Digits[i] = ch
      THEN (CHOOSE i \in 1 .. Len(Digits) : Digits[i] = ch) - 1
      ELSE NoDigit

\* str::len: the length of a string in bytes; TwoBytes stands for a
\* character whose UTF-8 encoding takes two bytes
TwoBytes == "U+00E9"
RECURSIVE ByteLen(_)
ByteLen(str) ==
    IF str = <<>> THEN 0 ELSE (IF Head(str) = TwoBytes THEN 2 ELSE 1) + ByteLen(Tail(str))

\* the givens a string of the right length stands for, in row-major order
RECURSIVE ParseGivens(_, _)
ParseGivens(str, i) ==
    IF i > Len(str) THEN <<>>
    ELSE (IF ToDigit(str[i]) \in {NoDigit, 0} THEN <<>> ELSE << <<i - 1, ToDigit(str[i])>> >>)
            \o ParseGivens(str, i + 1)

\* SolverBuilder::with_givens_string, for sizes up to 9
WithGivensStringResult(p, errs, str) ==
    IF ByteLen(str) # NumCells
      THEN [p |-> p, errors |-> Append(errs, <<"Invalid givens string length">>)]
      ELSE [p |-> [p EXCEPT !.givens = p.givens \o ParseGivens(str, 1)], errors |-> errs]

\* the orders in which a HashMap keyed by the labels of `regions` may
\* yield them
LabelOrders(regions) ==
    LET labels == SeqToSet(IF Len(regions) = NumCells THEN regions ELSE DefaultRegions)
    IN {o \in [1 .. Cardinality(labels) -> labels] :
            \A i, j \in 1 .. Cardinality(labels) : i # j => o[i] # o[j]}

\* the part of SolverBuilder::build after the check of `errors`, with the
\* region houses created in the given order
BuildOrdered(p, order) ==
    The({The({[ok |-> g.ok, board |-> g.b, data |-> nb.data] :
              g \in {ApplyGivens(nb.board, nb.data, p.givens)}}) :
         nb \in {NewBoard(p.regions, p.cons, order)}})

\* the region vectors handed to with_regions: two valid ones and the rows
\* with one label replaced (Size is a label outside [0, Size)), the
\* uniform vectors, and vectors of the wrong length
ValidRegions == {DefaultRegions, [i \in 1 .. NumCells |-> (i - 1) % Size]}
RegionVectors ==
    ValidRegions
      \cup {[DefaultRegions EXCEPT ![i] = l] : i \in {1, NumCells}, l \in {0, Size}}
      \cup {[i \in 1 .. NumCells |-> l] : l \in {0, Size}}
      \cup {<<>>, SubSeq(DefaultRegions, 1, NumCells - 1), Append(DefaultRegions, 0),
            [i \in 1 .. NumCells - 1 |-> Size]}

\* the strings handed to with_givens_string
Blank(n) == [i \in 1 .. n |-> "."]
GivensStrings ==
    {Blank(NumCells), Blank(NumCells - 1), Blank(NumCells + 1),
     [Blank(NumCells) EXCEPT ![1] = "1", ![2] = "0"],
     [Blank(NumCells) EXCEPT ![1] = "1", ![2] = "1"],
     [Blank(NumCells) EXCEPT ![NumCells] = "9"],
     [Blank(NumCells - 1) EXCEPT ![1] = "1"],
     [Blank(NumCells - 1) EXCEPT ![1] = TwoBytes, ![2] = "2"]}

\* the constraints handed to with_constraint: weak links in either
\* direction, between equal and between different values, and a self link
LinkCells == <<0, Size + 1>>
BuilderConstraints ==
    {LinkOnly({<<a, b>>}) : <<a, b>> \in
        {<<Candidate(LinkCells[1], 1), Candidate(LinkCells[2], 1)>>,
         <<Candidate(LinkCells[2], 1), Candidate(LinkCells[1], 1)>>,
         <<Candidate(LinkCells[2], 2), Candidate(LinkCells[1], 1)>>,
         <<Candidate(LinkCells[1], 1), Candidate(LinkCells[1], 1)>>}}
      \cup {LinkOnly({<<Candidate(LinkCells[2], v), Candidate(LinkCells[1], v)>> : v \in vs}) :
                vs \in {Values, Values \ {1}}}
      \cup {NonRepeat({LinkCells[1], LinkCells[2]})}

InitBuilder ==
    /\ puzzle = Puzzle(<<>>, <<>>, <<>>)
    /\ NoLocals
    /\ pc = "builder"
    /\ data = NoData
    /\ board = NoBoard
    /\ stack = <<>>
    /\ solution_count = 0
    /\ maximum_count = 0
    /\ receiver = NoReceiver
    /\ received = <<>>
    /\ result = Running

BuilderFrame ==
    <<stack, solution_count, maximum_count, receiver, received, work, todo,
      true_cell_values, num_solutions_per_candidate, solutions_seen,
      count_needed, valid, last_op, changed, pings, cancelled, descs, mem>>

\* an argument as `supplied` records it
Supplied(method, arg) == [method |-> method, arg |-> arg]

WithRegions ==
    /\ pc = "builder"
    /\ num_ops < MaxCalls
    /\ \E regions \in RegionVectors :
          \E r \in {WithRegionsResult(puzzle, errors, regions)} :
             /\ puzzle' = r.p
             /\ errors' = r.errors
             /\ supplied' = Append(supplied, Supplied("with_regions", regions))
    /\ num_ops' = num_ops + 1
    /\ UNCHANGED <<data, board, pc, result, service, BuilderFrame>>

WithGivensString ==
    /\ pc = "builder"
    /\ num_ops < MaxCalls
    /\ \E str \in GivensStrings :
          \E r \in {WithGivensStringResult(puzzle, errors, str)} :
             /\ puzzle' = r.p
             /\ errors' = r.errors
             /\ supplied' = Append(supplied, Supplied("with_givens_string", str))
    /\ num_ops' = num_ops + 1
    /\ UNCHANGED <<data, board, pc, result, service, BuilderFrame>>

WithConstraint ==
    /\ pc = "builder"
    /\ num_ops < MaxCalls
    /\ \E con \in BuilderConstraints :
          /\ puzzle' = [puzzle EXCEPT !.cons = Append(puzzle.cons, con)]
          /\ supplied' = Append(supplied, Supplied("with_constraint", con))
    /\ num_ops' = num_ops + 1
    /\ UNCHANGED <<errors, data, board, pc, result, service, BuilderFrame>>

\* Vec::insert and Iterator::position, with indices from 0
InsertAt(list, index, x) ==
    SubSeq(list, 1, index) \o <<x>> \o SubSeq(list, index + 1, Len(list))
Position(list, x) ==
    LET idx == {i \in 1 .. Len(list) : list[i] = x}
    IN IF idx = {} THEN NoCell ELSE SetMin(idx) - 1

\* build: the AllNakedSingles step is put into a list that lacks it
WithAllNakedSingles(steps) ==
    IF Position(steps, "AllNakedSingles") # NoCell THEN steps
    ELSE InsertAt(steps, 0, "AllNakedSingles")

\* build: the StepConstraints step is put after the singles steps of a list
\* that lacks it
WithStepConstraints(steps) ==
    LET naked_single_index == Position(steps, "NakedSingle")
        hidden_single_index == Position(steps, "HiddenSingle")
        index == IF naked_single_index # NoCell /\ hidden_single_index # NoCell
                   THEN (IF naked_single_index > hidden_single_index
                           THEN naked_single_index ELSE hidden_single_index) + 1
                 ELSE IF naked_single_index # NoCell THEN naked_single_index + 1
                 ELSE IF hidden_single_index # NoCell THEN hidden_single_index + 1
                 ELSE 0
    IN IF Position(steps, "StepConstraints") # NoCell THEN steps
       ELSE InsertAt(steps, index, "StepConstraints")

\* build: "Construct the logical step lists."
BuildLogicalSteps(steps) ==
    IF steps = <<>> THEN StandardLogic
    ELSE WithStepConstraints(WithAllNakedSingles(steps))

\* SolverBuilder::build
BuildSolver ==
    /\ pc = "builder"
    /\ pc' = "built"
    /\ IF errors # <<>>
         THEN /\ result' = BuildResult("Err", errors)
              /\ UNCHANGED <<data, board, service>>
         ELSE \E order \in LabelOrders(puzzle.regions) :
              \E s \in {BuildOrdered(puzzle, order)} :
                 IF s.ok
                   THEN /\ result' = BuildResult("Ok", <<>>)
                        /\ data' = s.data
                        /\ board' = s.board
                        /\ logical_steps' = BuildLogicalSteps(logical_steps)
                        /\ logical_solve_steps' =
                              SelectSeq(logical_steps', IsActiveDuringLogicalSolve)
                        /\ brute_force_steps' =
                              SelectSeq(logical_steps', IsActiveDuringBruteForce)
                        /\ UNCHANGED <<rendered, request, responses, cell_string, websocket>>
                   ELSE /\ result' = BuildResult("Err", << <<"Failed to set given">> >>)
                        /\ UNCHANGED <<data, board, service>>
    /\ UNCHANGED <<puzzle, errors, num_ops, supplied, BuilderFrame>>

NextBuilder == WithRegions \/ WithGivensString \/ WithConstraint \/ BuildSolver

SpecBuilder == InitBuilder /\ [][NextBuilder]_vars

\* BoardData::has_weak_link and BoardData::is_exclusive
HasWeakLink(d, cand0, cand1) == cand1 \in d.weak_links[cand0]
IsExclusive(d, cell1, cell2) == cell2 \in d.exclusive_cells[cell1]

\* C11: in the metadata of a built board the weak-link relation is
\* symmetric: candidate a is linked to b exactly when b is linked to a,
\* whatever pairs, in whatever direction, the constraints contributed.
WeakLinksSymmetric ==
    result.kind = "Ok" =>
        \A a, b \in Cands : HasWeakLink(data, a, b) <=> HasWeakLink(data, b, a)

\* a board built from a constraint whose only pair runs from the larger
\* candidate to the smaller one, linked from the smaller to the larger
DescendingPairLinked ==
    /\ pc = "built"
    /\ result.kind = "Ok"
    /\ puzzle.cons = <<LinkOnly({<<Candidate(LinkCells[2], 2), Candidate(LinkCells[1], 1)>>})>>
    /\ HasWeakLink(data, Candidate(LinkCells[1], 1), Candidate(LinkCells[2], 2))

\* C12: on a built board is_exclusive(c1, c2) holds exactly when for every
\* value v the candidates v@c1 and v@c2 are weak-linked.
ExclusiveIffAllValuesLinked ==
    result.kind = "Ok" =>
        \A c1, c2 \in Cells :
            IsExclusive(data, c1, c2)
                <=> \A v \in Values :
                        HasWeakLink(data, Candidate(c1, v), Candidate(c2, v))

\* two cells that share no house, made exclusive by the links of two
\* constraints together, and exclusive from the larger cell too
ExclusiveByConstraints ==
    /\ pc = "built"
    /\ result.kind = "Ok"
    /\ Len(puzzle.cons) = 2
    /\ \A i \in 1 .. 2 : puzzle.cons[i].links # {} /\ Cardinality(puzzle.cons[i].links) < Size
    /\ IsExclusive(data, LinkCells[2], LinkCells[1])
    /\ \E c \in Cells : c # LinkCells[1] /\ ~IsExclusive(data, LinkCells[1], c)

\* C20 as stated: build returns a diagnostic string and no solver whenever
\* a supplied givens string has the wrong length or a supplied region
\* vector contains a label outside [0, N).
WrongLengthGivens(call) ==
    call.method = "with_givens_string" /\ ByteLen(call.arg) # NumCells
LabelOutOfRange(call) ==
    /\ call.method = "with_regions"
    /\ \E i \in 1 .. Len(call.arg) : call.arg[i] \notin 0 .. Size - 1
Uniform(call) ==
    Len(call.arg) = NumCells /\ \A i \in 1 .. Len(call.arg) : call.arg[i] = call.arg[1]
NoSolverReturned ==
    /\ result.kind = "Err"
    /\ result.msgs # <<>>
    /\ data = NoData
    /\ board = NoBoard
----------------------------------------------------------------------------
(* Board::clone.  A Board is a Vec of masks, a counter and an Arc of the   *)
(* metadata; `mem` holds the Vec allocations, the Arc allocations and the  *)
(* two Board values, each naming its allocations.  `board` and `data` keep *)
(* what the original held when it was cloned.                              *)

\* struct Board { board: Vec<ValueMask>, solved_count: usize, data: Arc<BoardData> }
BoardStruct(vec, solved_count, arc) == [vec |-> vec, solved_count |-> solved_count, data |-> arc]
NoStruct == BoardStruct(0, 0, 0)

\* the masks and the counter a Board value stands for
Deref(m, s) == [board |-> m.vecs[s.vec], solved_count |-> s.solved_count]

\* a clone whose Vec is the original's allocation
BoardCloneShared(m) == [m EXCEPT !.clone = m.original]
\* #[derive(Clone)] for Board: Vec::clone allocates a copy of the masks,
\* the counter is copied, Arc::clone names the same metadata
BoardClone(m) ==
    [m EXCEPT !.vecs = Append(m.vecs, m.vecs[m.original.vec]),
              !.clone = BoardStruct(Len(m.vecs) + 1, m.original.solved_count,
                                    m.original.data)]

\* Board::deep_clone: the metadata is copied too
BoardDeepClone(m) ==
    [m EXCEPT !.vecs = Append(m.vecs, m.vecs[m.original.vec]),
              !.arcs = Append(m.arcs, m.arcs[m.original.data]),
              !.clone = BoardStruct(Len(m.vecs) + 1, m.original.solved_count,
                                    Len(m.arcs) + 1)]

\* the clone after an operation that left the masks and the counter of b
WriteClone(m, b) ==
    [m EXCEPT !.vecs[m.clone.vec] = b.board, !.clone.solved_count = b.solved_count]

\* the clone goes out of scope: what only it named is freed
DropClone(m) ==
    [m EXCEPT !.vecs = IF m.clone.vec # m.original.vec
                         THEN SubSeq(m.vecs, 1, Len(m.vecs) - 1) ELSE m.vecs,
              !.arcs = IF m.clone.data # m.original.data
                         THEN SubSeq(m.arcs, 1, Len(m.arcs) - 1) ELSE m.arcs,
              !.clone = NoStruct]

ClonePuzzles ==
    {p \in Puzzles : p.givens = <<>> /\
        (p.cons = <<>> \/ p.cons[1].name \in {"NonRepeat", "EnforceOnly"})}

InitClone ==
    /\ puzzle \in ClonePuzzles
    /\ \E s \in {Build(puzzle)} :
          /\ s.ok
          /\ data = s.data
          /\ board = s.board
          /\ mem = [vecs |-> <<s.board.board>>, arcs |-> <<s.data>>,
                    original |-> BoardStruct(1, s.board.solved_count, 1),
                    clone |-> NoStruct]
    /\ NoService
    /\ work = NoBoard
    /\ todo = Todo(0, 0, <<>>)
    /\ true_cell_values = [c \in Cells |-> MaskNew]
    /\ num_solutions_per_candidate = [c \in Cands |-> 0]
    /\ solutions_seen = {}
    /\ count_needed = 0
    /\ valid = TRUE
    /\ last_op = NoOp
    /\ num_ops = 0
    /\ changed = FALSE
    /\ errors = <<>>
    /\ pings = <<>>
    /\ cancelled = FALSE
    /\ descs = <<>>
    /\ supplied = <<>>
    /\ pc = "original"
    /\ stack = <<>>
    /\ solution_count = 0
    /\ maximum_count = 0
    /\ receiver = NoReceiver
    /\ received = <<>>
    /\ result = Running

CloneFrame ==
    <<puzzle, data, board, stack, solution_count, maximum_count, receiver,
      received, result, work, todo, true_cell_values,
      num_solutions_per_candidate, solutions_seen, count_needed, changed,
      errors, pings, cancelled, descs, supplied, service>>

\* let clone = board.clone()
CloneBoard ==
    /\ pc = "original"
    /\ mem' = BoardClone(mem)
    /\ pc' = "cloned"
    /\ UNCHANGED <<valid, last_op, num_ops, CloneFrame>>

\* let clone = board.deep_clone()
DeepCloneBoard ==
    /\ pc = "original"
    /\ mem' = BoardDeepClone(mem)
    /\ pc' = "cloned"
    /\ UNCHANGED <<valid, last_op, num_ops, CloneFrame>>

\* the operation named `name` on the clone left r.b and reported r.ok
OperatedOnClone(name, cell, value, r) ==
    /\ mem' = WriteClone(mem, r.b)
    /\ valid' = (valid /\ r.ok)
    /\ last_op' = Op(name, cell, value, r.ok, 0)
    /\ num_ops' = num_ops + 1
    /\ UNCHANGED <<pc, CloneFrame>>

CloneSetSolved ==
    /\ pc = "cloned"
    /\ num_ops < MaxOps
    /\ \E cell \in OpCells, value \in Values :
       \E r \in {SetSolved(Deref(mem, mem.clone), mem.arcs[mem.clone.data], cell, value)} :
          OperatedOnClone("set_solved", cell, value, r)

CloneClearValue ==
    /\ pc = "cloned"
    /\ num_ops < MaxOps
    /\ \E cell \in OpCells, value \in Values :
       \E r \in {ClearValue(Deref(mem, mem.clone), cell, value)} :
          OperatedOnClone("clear_value", cell, value, r)

CloneSetMask ==
    /\ pc = "cloned"
    /\ num_ops < MaxOps
    /\ \E cell \in OpCells, mask \in SetMasks :
       \E r \in {SetMask(Deref(mem, mem.clone), cell, mask)} :
          OperatedOnClone("set_mask", cell, 0, r)

\* the clone is discarded
DiscardClone ==
    /\ pc = "cloned"
    /\ mem' = DropClone(mem)
    /\ pc' = "dropped"
    /\ UNCHANGED <<valid, last_op, num_ops, CloneFrame>>

NextClone ==
    \/ CloneBoard
    \/ DeepCloneBoard
    \/ CloneSetSolved
    \/ CloneClearValue
    \/ CloneSetMask
    \/ DiscardClone

SpecClone == InitClone /\ [][NextClone]_vars

\* C13: after a board is cloned, whatever operations are applied to the
\* clone (a failing set_solved included) and after the clone is discarded,
\* the original's cell masks, solved counter and metadata (houses, weak
\* links, exclusivity table, constraint list) are what they were.
OriginalUnchanged ==
    pc \in {"cloned", "dropped"} =>
        /\ Deref(mem, mem.original) = board
        /\ mem.arcs[mem.original.data] = data

\* a failing set_solved has left the clone different from the original
CloneDiffers ==
    /\ pc = "cloned"
    /\ last_op.name = "set_solved"
    /\ ~last_op.ok
    /\ mem.clone.data = mem.original.data
    /\ Deref(mem, mem.clone) # Deref(mem, mem.original)

----------------------------------------------------------------------------
(* The receiver of find_solution_count.                                     *)

\* C14: with a receiver, every solution counted was passed to receive
\* exactly once (as many calls as solutions counted, no board twice), and
\* once a receive call has returned false the search has stopped: no
\* further call is made and the result is AtLeastCount of the solutions
\* delivered so far.
ReceiverContract ==
    /\ receiver = NoReceiver => received = <<>>
    /\ receiver # NoReceiver =>
          /\ Len(received) = solution_count
          /\ \A i, j \in 1 .. Len(received) : i # j => received[i] # received[j]
          /\ receiver > 0 => Len(received) <= receiver
          /\ ReceiverStopped =>
                pc = "done" /\ result = CountResult("AtLeastCount", Len(received))

\* the receiver returned false at its second solution, below the maximum
\* and with boards left on the stack
ReceiverStoppedEarly ==
    /\ pc = "done"
    /\ receiver = 2
    /\ Len(received) = 2
    /\ maximum_count > 2
    /\ stack # <<>>

\* C15: while find_solution_count runs with a receiver, progress_ping is
\* called periodically, each token larger than the one before: a count
\* that has delivered two solutions or more has pinged its receiver, with
\* increasing tokens.
ProgressPinged ==
    (pc = "done" /\ receiver # NoReceiver /\ solution_count >= 2) =>
        /\ pings # <<>>
        /\ \A i \in 1 .. Len(pings) - 1 : pings[i] < pings[i + 1]

----------------------------------------------------------------------------
(* Cancellation.  The caller's token is a closure over a flag that another *)
(* thread may set at any time (cancellation.rs); `cancelled` is what       *)
(* Cancellation::check would return.                                        *)

\* the token is cancelled while an entry point runs
Cancel ==
    /\ pc # "done"
    /\ ~cancelled
    /\ cancelled' = TRUE
    /\ UNCHANGED <<puzzle, data, board, pc, stack, solution_count, maximum_count,
                   receiver, received, result, work, todo, true_cell_values,
                   num_solutions_per_candidate, solutions_seen, count_needed,
                   valid, last_op, num_ops, changed, errors, pings, descs,
                   supplied, mem, service>>

InitCancel == InitCount \/ InitRandom \/ InitLogical

NextCancel ==
    \/ CountIteration
    \/ CountExhausted
    \/ RandomIteration
    \/ RandomExhausted
    \/ LogicalSolveIteration
    \/ Cancel

SpecCancel == InitCancel /\ [][NextCancel]_vars

\* C16: the entry points consult the cancellation token between search
\* nodes and between logical steps: once the token reads cancelled, the
\* next step of a running entry point is its return with a cancelled
\* result, and no further node or step is processed.
CancelObserved ==
    [][(cancelled /\ pc # "done") => (pc' = "done" /\ result'.kind = "Cancelled")]_vars

----------------------------------------------------------------------------
(* run_logical_solve on its own.                                            *)

\* puzzles on which cell forcing has work: r1c1 holds two values, both
\* weak-linked to one candidate of r2c2
ForcingPuzzles ==
    {Puzzle(<<>>,
            <<Pencilmark(0, {1, 2}),
              LinkOnly({<<Candidate(0, 1), d>>, <<Candidate(0, 2), d>>})>>,
            g) :
        d \in {Candidate(Size + 1, 1), Candidate(Size + 1, Size)}, g \in GivenSeqs(1)}

InitForcing ==
    /\ puzzle \in ForcingPuzzles
    /\ \E s \in {Build(puzzle)} :
          /\ s.ok
          /\ data = s.data
          /\ board = s.board
    /\ NoLocals
    /\ pc = "logical"
    /\ stack = <<>>
    /\ solution_count = 0
    /\ maximum_count = 0
    /\ receiver = NoReceiver
    /\ received = <<>>
    /\ result = Running

InitLogicalSolve == InitLogical \/ InitForcing

SpecLogical == InitLogicalSolve /\ [][LogicalSolveIteration]_vars

\* the last step run reported Invalid
InvalidReported == descs # <<>> /\ descs[Len(descs)].res = "Invalid"
\* the steps that acted before the end
StepsTaken == {i \in 1 .. Len(descs) : descs[i].step # "Solved!"}
\* no step applies to the final board
NoStepApplies == RunSingleLogicalStep(board, data).res = "None"

\* C17: run_logical_solve returns Solved exactly when the board is or
\* becomes fully solved, Invalid exactly when a step reports invalid,
\* Changed when at least one step changed the board and then no step
\* applies to the still unsolved board, and None when no step applies at
\* all to an unsolved board.
LogicalResultContract ==
    pc = "done" =>
        /\ result.kind \in {"Solved", "Invalid", "Changed", "None"}
        /\ result.b = board
        /\ result.kind = "Solved" <=> IsSolved(board)
        /\ result.kind = "Invalid" <=> InvalidReported
        /\ result.kind = "Changed" <=>
              (/\ ~IsSolved(board) /\ ~InvalidReported
               /\ StepsTaken # {} /\ board # Build(puzzle).board
               /\ NoStepApplies)
        /\ result.kind = "None" <=>
              (/\ ~IsSolved(board) /\ StepsTaken = {}
               /\ board = Build(puzzle).board
               /\ NoStepApplies)

\* a solve that ends with Changed after two steps or more
LogicalSolveChanged ==
    /\ pc = "done"
    /\ result.kind = "Changed"
    /\ Len(descs) >= 2
    /\ ~IsSolved(board)

\* C18: during a logical solve no step adds a value to a cell: after
\* every step run by run_single_logical_step each cell's value set is a
\* subset of its value set before the step.
StepsOnlyRemove ==
    [][pc = "logical" =>
          \A c \in Cells : board'.board[c].v \subseteq board.board[c].v]_vars

\* a cell forcing and then a single have acted in a solve, and a cell
\* holds fewer values than at the start
StepsHaveActed ==
    /\ pc = "logical"
    /\ \E i, j \in 1 .. Len(descs) :
          /\ i < j
          /\ descs[i].step = "SimpleCellForcing"
          /\ descs[j].step \in {"HiddenSingle", "NakedSingle"}
    /\ \E c \in Cells : board.board[c].v # Build(puzzle).board.board[c].v

----------------------------------------------------------------------------
(* run_logical_solve on boards with irregular regions.  The houses of the  *)
(* regions are created in the order in which a HashMap yields its keys,    *)
(* which differs from one HashMap to the next.                              *)

\* two regions that are neither a row nor a column, and the last row
IrregularRegions == <<0, 0, 1, 0, 1, 1, 2, 2, 2>>

OrderPuzzles ==
    {Puzzle(IrregularRegions, c, g) : <<c, g>> \in
        {t \in {<<>>, <<Pencilmark(0, {1, 2})>>, <<Pencilmark(Size + 1, {2, 3})>>}
                \X GivenSeqs(MaxInputs) : Len(t[1]) + Len(t[2]) <= MaxInputs}}

InitOrder ==
    /\ puzzle \in OrderPuzzles
    /\ \E order \in LabelOrders(puzzle.regions) :
       \E s \in {BuildOrdered(puzzle, order)} :
          /\ s.ok
          /\ data = s.data
          /\ board = s.board
    /\ NoLocals
    /\ pc = "logical"
    /\ stack = <<>>
    /\ solution_count = 0
    /\ maximum_count = 0
    /\ receiver = NoReceiver
    /\ received = <<>>
    /\ result = Running

SpecOrder == InitOrder /\ [][LogicalSolveIteration]_vars

\* Solver::run_logical_solve as a whole: its result, its descriptions and
\* the board it leaves
RECURSIVE RunLogicalSolve(_, _, _, _)
RunLogicalSolve(b, d, ch, ds) ==
    IF IsSolved(b)
      THEN [result |-> SingleResult("Solved", b), descs |-> Append(ds, SolvedDesc(b)),
            board |-> b]
    ELSE The({IF r.res = "None"
                THEN [result |-> SingleResult(LogicalSolveEnd(ch), r.b), descs |-> ds,
                      board |-> r.b]
              ELSE IF r.res = "Invalid"
                THEN [result |-> SingleResult("Invalid", r.b),
                      descs |-> Append(ds, StepDesc(r)), board |-> r.b]
              ELSE RunLogicalSolve(r.b, d, TRUE, Append(ds, StepDesc(r))) :
              r \in {RunSingleLogicalStep(b, d)}})

\* the execution in which the HashMap yields the labels in ascending order
AscendingRun ==
    The({RunLogicalSolve(s.board, s.data, FALSE, <<>>) : s \in {Build(puzzle)}})

\* C19: for given size, regions, givens, constraints and step list,
\* run_logical_solve is deterministic: every execution yields the same
\* result, the same sequence of step descriptions and the same final
\* board as the execution in which the region houses are created in
\* ascending order of their labels.
LogicalSolveDeterministic ==
    pc = "done" =>
        /\ result = AscendingRun.result
        /\ board = AscendingRun.board
        /\ Len(descs) = Len(AscendingRun.descs)
        /\ \A i \in 1 .. Len(descs) :
              /\ descs[i].step = AscendingRun.descs[i].step
              /\ descs[i].res = AscendingRun.descs[i].res
              /\ descs[i].b.board = AscendingRun.descs[i].b.board

----------------------------------------------------------------------------
(* The logical steps of a built solver.                                     *)

MaxSteps == 2

StepNames == {StandardLogic[i] : i \in 1 .. Len(StandardLogic)}
StepLists == UNION {[1 .. n -> StepNames] : n \in 0 .. MaxSteps}

\* with_logical_step(logical_step)
WithLogicalStep ==
    /\ pc = "builder"
    /\ num_ops < MaxCalls
    /\ \E step \in StepNames :
          /\ logical_steps' = Append(logical_steps, step)
          /\ supplied' = Append(supplied, Supplied("with_logical_step", step))
    /\ num_ops' = num_ops + 1
    /\ UNCHANGED <<puzzle, errors, data, board, pc, result, brute_force_steps,
                   logical_solve_steps, rendered, request, responses,
                   cell_string, websocket, BuilderFrame>>

\* with_logical_steps(logical_steps)
WithLogicalSteps ==
    /\ pc = "builder"
    /\ num_ops < MaxCalls
    /\ \E steps \in StepLists :
          /\ logical_steps' = steps
          /\ supplied' = Append(supplied, Supplied("with_logical_steps", steps))
    /\ num_ops' = num_ops + 1
    /\ UNCHANGED <<puzzle, errors, data, board, pc, result, brute_force_steps,
                   logical_solve_steps, rendered, request, responses,
                   cell_string, websocket, BuilderFrame>>

NextSteps == WithLogicalStep \/ WithLogicalSteps \/ BuildSolver

SpecSteps == InitBuilder /\ [][NextSteps]_vars

\* the step list the calls of the builder configured
RECURSIVE ConfiguredSteps(_)
ConfiguredSteps(calls) ==
    IF calls = <<>> THEN <<>>
    ELSE LET last == calls[Len(calls)]
             before == ConfiguredSteps(SubSeq(calls, 1, Len(calls) - 1))
         IN IF last.method = "with_logical_steps" THEN last.arg
            ELSE IF last.method = "with_logical_step" THEN Append(before, last.arg)
            ELSE before

\* a solver was built from a non-empty step list without AllNakedSingles
BuiltWithoutAllNakedSingles ==
    /\ pc = "built"
    /\ result.kind = "Ok"
    /\ ConfiguredSteps(supplied) # <<>>
    /\ Position(ConfiguredSteps(supplied), "AllNakedSingles") = NoCell

\* C21: a solver built from a non-empty step list that lacks AllNakedSingles
\* has AllNakedSingles at the head of its step list and of its brute-force
\* list, and its logical-solve list does not hold AllNakedSingles
AllNakedSinglesFirst ==
    BuiltWithoutAllNakedSingles =>
       /\ logical_steps[1] = "AllNakedSingles"
       /\ brute_force_steps # <<>>
       /\ brute_force_steps[1] = "AllNakedSingles"
       /\ Position(logical_solve_steps, "AllNakedSingles") = NoCell

----------------------------------------------------------------------------
(* Rendering the results of a logical solve.                                *)

\* usize arithmetic: the width, and a - b without overflow checks
UsizeBits == 16
WrappingSub(a, b) == (a - b) % (2 ^ UsizeBits)

\* Iterator::take(n) of a list
Take(list, n) == SubSeq(list, 1, IF n < Len(list) THEN n ELSE Len(list))

\* writeln!(f, "{}", step) for each step of the list
RECURSIVE WriteLines(_)
WriteLines(list) ==
    IF list = <<>> THEN <<>>
    ELSE <<Head(list), "\n">> \o WriteLines(Tail(list))

\* impl Display for LogicalStepDescList: self.steps.len() - 1 panics when the
\* build checks overflow and the list is empty, and wraps otherwise
FmtDescList(list, overflow_checks) ==
    IF Len(list) < 1 /\ overflow_checks THEN Panicked
    ELSE Output(WriteLines(Take(list, WrappingSub(Len(list), 1)))
                \o (IF list = <<>> THEN <<>> ELSE <<list[Len(list)]>>))

\* the texts of a list of step descriptions
Texts(list) == [i \in 1 .. Len(list) |-> list[i].step]

\* impl Display for LogicalSolveResult
FmtLogicalSolveResult(res, list, overflow_checks) ==
    IF res.kind = "None" THEN Output(<<"No Description">>)
    ELSE FmtDescList(Texts(list), overflow_checks)

\* MessageHandler::solve_path: the description of the response
SolvePathDesc(res, list, overflow_checks) ==
    IF res.kind = "None" THEN Output(<<"No logical steps found.">>)
    ELSE IF res.kind = "Invalid"
      THEN FmtDescList(Append(Texts(list), "Board is invalid!"), overflow_checks)
    ELSE FmtDescList(Texts(list), overflow_checks)

RenderFrame ==
    <<puzzle, data, board, stack, solution_count, maximum_count, receiver,
      received, result, work, todo, true_cell_values,
      num_solutions_per_candidate, solutions_seen, count_needed, valid,
      last_op, num_ops, changed, errors, pings, cancelled, descs, supplied,
      mem, logical_steps, brute_force_steps, logical_solve_steps, request,
      responses, cell_string, websocket>>

\* result.to_string() of the result of run_logical_solve
RenderSolveResult ==
    /\ pc = "done"
    /\ \E overflow_checks \in BOOLEAN :
          rendered' = FmtLogicalSolveResult(result, descs, overflow_checks)
    /\ pc' = "rendered"
    /\ UNCHANGED RenderFrame

\* the rest of solve_path, after run_logical_solve
SolvePath ==
    /\ pc = "done"
    /\ \E overflow_checks \in BOOLEAN :
          rendered' = SolvePathDesc(result, descs, overflow_checks)
    /\ pc' = "rendered"
    /\ UNCHANGED RenderFrame

\* list.to_string() of a description list: the first n descriptions of the
\* solve, or none (LogicalStepDescList::new())
RenderDescList ==
    /\ pc = "done"
    /\ \E n \in 0 .. Len(descs), overflow_checks \in BOOLEAN :
          rendered' = FmtDescList(Texts(SubSeq(descs, 1, n)), overflow_checks)
    /\ pc' = "rendered"
    /\ UNCHANGED RenderFrame

NextRender ==
    \/ LogicalSolveIteration
    \/ RenderSolveResult
    \/ SolvePath
    \/ RenderDescList

SpecRender == InitLogicalSolve /\ [][NextRender]_vars

\* C22: no rendering of a result or of a description list panics, a list
\* with no entries included
RenderNeverPanics == ~rendered.panicked
----------------------------------------------------------------------------
(* The count and check requests of the message handler.                     *)

Nonces == {7, 123}

\* CountResponse::new and InvalidResponse::new
CountResponse(nonce, count, in_progress) ==
    [type |-> "count", nonce |-> nonce, count |-> count,
     in_progress |-> in_progress, message |-> ""]
InvalidResponse(nonce, message) ==
    [type |-> "invalid", nonce |-> nonce, count |-> 0, in_progress |-> FALSE,
     message |-> message]

\* a handler with no message yet; the solver is the one the message's
\* puzzle will be built into
InitCountRequest ==
    /\ InitSolver
    /\ NoLocals
    /\ pc = "message"
    /\ stack = <<>>
    /\ solution_count = 0
    /\ maximum_count = 0
    /\ receiver = NoReceiver
    /\ received = <<>>
    /\ result = Running

\* handle_message, up to the call of find_solution_count in count: "check"
\* counts up to 2 without a receiver, "count" passes the maximum 0 and a
\* ReportCountSolutionReceiver, which never refuses
HandleCountMessage ==
    /\ pc = "message"
    /\ \E nonce \in Nonces, command \in {"count", "check"} :
          /\ request' = Message(nonce, command)
          /\ maximum_count' = IF command = "check" THEN 2 ELSE 0
          /\ receiver' = IF command = "check" THEN NoReceiver ELSE 0
    /\ pc' = "run"
    /\ stack' = <<board>>
    /\ UNCHANGED <<puzzle, data, board, solution_count, received, result, work,
                   todo, true_cell_values, num_solutions_per_candidate,
                   solutions_seen, count_needed, valid, last_op, num_ops, changed,
                   errors, pings, cancelled, descs, supplied, mem, logical_steps,
                   brute_force_steps, logical_solve_steps, rendered, responses,
                   cell_string, websocket>>

\* one iteration of the loop, with ReportCountSolutionReceiver::receive: when
\* a second has passed since the last report the receiver sends its count
ReportCountIteration ==
    /\ CountStep
    /\ \/ UNCHANGED responses
       \/ /\ received' # received
          /\ responses' =
                Append(responses, CountResponse(request.nonce, Len(received'), TRUE))
    /\ UNCHANGED <<work, todo, true_cell_values, num_solutions_per_candidate,
                   solutions_seen, count_needed, valid, last_op, num_ops, changed,
                   errors, pings, cancelled, descs, supplied, mem, logical_steps,
                   brute_force_steps, logical_solve_steps, rendered, request,
                   cell_string, websocket>>

\* the response of count to the result of find_solution_count
CountResultResponse(nonce, res) ==
    IF res.kind = "None" THEN InvalidResponse(nonce, "No solutions found.")
    ELSE IF res.kind = "Error"
      THEN InvalidResponse(nonce, "Internal error finding a cell to check.")
    ELSE CountResponse(nonce, res.n, FALSE)

\* the rest of count and of handle_message: send_result(result)
SendCountResult ==
    /\ pc = "done"
    /\ responses' = Append(responses, CountResultResponse(request.nonce, result))
    /\ pc' = "responded"
    /\ UNCHANGED <<puzzle, data, board, stack, solution_count, maximum_count,
                   receiver, received, result, work, todo, true_cell_values,
                   num_solutions_per_candidate, solutions_seen, count_needed,
                   valid, last_op, num_ops, changed, errors, pings, cancelled,
                   descs, supplied, mem, logical_steps, brute_force_steps,
                   logical_solve_steps, rendered, request, cell_string, websocket>>

NextCountRequest ==
    \/ HandleCountMessage
    \/ ReportCountIteration
    \/ CountExhausted
    \/ SendCountResult

SpecCountRequest == InitCountRequest /\ [][NextCountRequest]_vars

\* the last response sent
FinalResponse == responses[Len(responses)]

\* C23: the final response to a count request on a puzzle with solutions
\* is a count response that is not in progress and carries the nonce of
\* the request and the number of solutions of the puzzle
CountResponseExact ==
    (pc = "responded" /\ request.command = "count" /\ NumSolutions > 0) =>
        /\ FinalResponse.type = "count"
        /\ ~FinalResponse.in_progress
        /\ FinalResponse.nonce = request.nonce
        /\ FinalResponse.count = NumSolutions
----------------------------------------------------------------------------
(* CellUtility::parse_cell_groups. A string is a sequence of characters,    *)
(* here of lower-case ASCII characters other than white space, so that      *)
(* trim, is_ascii and to_ascii_lowercase leave it as it is.                 *)

MaxLen == 6

\* str::split(sep): the pieces between the separators
RECURSIVE Split(_, _)
Split(str, sep) ==
    IF \A i \in 1 .. Len(str) : str[i] # sep THEN <<str>>
    ELSE LET at == SetMin({i \in 1 .. Len(str) : str[i] = sep})
         IN <<SubSeq(str, 1, at - 1)>> \o Split(SubSeq(str, at + 1, Len(str)), sep)

\* the result of add_range and add_cells: Err(()), or the list
Listed(ok, list) == [ok |-> ok, list |-> list]

\* CellUtility::add_range: `end` is the larger of the new `start` and `end`
AddRange(list, start, end) ==
    IF start = 0 THEN Listed(FALSE, list)
    ELSE IF end = 0 THEN Listed(TRUE, Append(list, start))
    ELSE LET start2 == IF start <= end THEN start ELSE end
             end2 == IF start2 >= end THEN start2 ELSE end
         IN Listed(TRUE, list \o [i \in 1 .. end2 - start2 + 1 |-> start2 + i - 1])

\* CellUtility::add_cells: the cells of the rows and columns, row by row
AddCells(list, rows, cols) ==
    IF \E i \in 1 .. Len(rows), j \in 1 .. Len(cols) :
          rows[i] = 0 \/ cols[j] = 0 \/ rows[i] > Size \/ cols[j] > Size
      THEN Listed(FALSE, list)
      ELSE Listed(TRUE, list \o [k \in 1 .. Len(rows) * Len(cols) |->
                 (rows[((k - 1) \div Len(cols)) + 1] - 1) * Size
                    + cols[((k - 1) % Len(cols)) + 1] - 1])

\* the step of a numpad direction, as (rows, columns); 5 stays, and so does
\* the r that ends the directions, which is handled after the step
DirectionStep(ch) ==
    CASE ch = "1" -> <<1, 0 - 1>> [] ch = "2" -> <<1, 0>> [] ch = "3" -> <<1, 1>>
      [] ch = "4" -> <<0, 0 - 1>> [] ch = "5" -> <<0, 0>> [] ch = "6" -> <<0, 1>>
      [] ch = "7" -> <<0 - 1, 0 - 1>> [] ch = "8" -> <<0 - 1, 0>> [] ch = "9" -> <<0 - 1, 1>>
      [] OTHER -> <<0, 0>>

\* the loop over the directions after a d: i is the index of the next
\* character, from 0; a step may go to the row or column `size`
Directed(ok, cells, i, added) == [ok |-> ok, cells |-> cells, i |-> i, added |-> added]
RECURSIVE DirectionLoop(_, _, _, _, _)
DirectionLoop(g, cells, i, complete, added) ==
    IF ~(i < Len(g) /\ ~complete) THEN Directed(TRUE, cells, i, added)
    ELSE LET cell == cells[Len(cells)]
             dir_char == g[i + 1]
             to_add == <<(cell \div Size) + DirectionStep(dir_char)[1],
                         (cell % Size) + DirectionStep(dir_char)[2]>>
         IN IF ToDigit(dir_char) \in {NoDigit, 0} /\ dir_char # "r"
              THEN Directed(FALSE, cells, i, added)
            ELSE IF to_add[1] < 0 \/ to_add[1] > Size \/ to_add[2] < 0 \/ to_add[2] > Size
              THEN Directed(FALSE, cells, i, added)
            ELSE DirectionLoop(g, Append(cells, to_add[1] * Size + to_add[2]), i + 1,
                               dir_char = "r", TRUE)

\* the locals of the loop over the characters of a group
GroupState(cells, rows, cols, adding_rows, value_start, last_added_directions,
           cur_val_start, cur_val_end) ==
    [cells |-> cells, rows |-> rows, cols |-> cols, adding_rows |-> adding_rows,
     value_start |-> value_start, last_added_directions |-> last_added_directions,
     cur_val_start |-> cur_val_start, cur_val_end |-> cur_val_end]

\* the end of a sub-group, at an r, at a d or at the end of the group: the
\* columns are completed and the cells of the rows and columns added
CloseSubGroup(st) ==
    IF st.adding_rows THEN Listed(FALSE, st.cells)
    ELSE LET cols == AddRange(st.cols, st.cur_val_start, st.cur_val_end)
         IN IF ~cols.ok THEN Listed(FALSE, st.cells)
            ELSE AddCells(st.cells, st.rows, cols.list)

\* the loop over the characters of a group, from the index i (from 0)
RECURSIVE GroupLoop(_, _, _)
GroupLoop(g, st, i) ==
    IF ~(i < Len(g))
      THEN IF st.last_added_directions THEN Listed(TRUE, st.cells)
           ELSE LET closed == CloseSubGroup(st)
                IN IF ~closed.ok \/ closed.list = <<>> THEN Listed(FALSE, <<>>)
                   ELSE closed
    ELSE LET cur_char == g[i + 1] IN
      IF cur_char = "r"
        THEN LET closed == CloseSubGroup(st)
             IN IF ~closed.ok THEN Listed(FALSE, <<>>)
                ELSE GroupLoop(g, GroupState(closed.list, <<>>, <<>>, TRUE, TRUE,
                                             FALSE, 0, 0), i + 1)
      ELSE IF cur_char = "c"
        THEN LET rows == AddRange(st.rows, st.cur_val_start, st.cur_val_end)
             IN IF ~st.adding_rows \/ ~rows.ok
                     \/ ~AddCells(st.cells, rows.list, st.cols).ok
                  THEN Listed(FALSE, <<>>)
                  ELSE GroupLoop(g, GroupState(
                           AddCells(st.cells, rows.list, st.cols).list, rows.list,
                           st.cols, FALSE, TRUE, FALSE, 0, 0), i + 1)
      ELSE IF cur_char = "d"
        THEN LET closed == CloseSubGroup(st)
             IN IF ~closed.ok \/ closed.list = <<>> THEN Listed(FALSE, <<>>)
                ELSE LET dirs == DirectionLoop(g, closed.list, i + 1, FALSE, FALSE)
                     IN IF ~dirs.ok THEN Listed(FALSE, <<>>)
                        ELSE GroupLoop(g, GroupState(dirs.cells, <<>>, <<>>, TRUE,
                                          TRUE, dirs.added, 0, 0), dirs.i)
      ELSE IF ToDigit(cur_char) # NoDigit
        THEN GroupLoop(g,
               IF st.value_start
                 THEN [st EXCEPT !.cur_val_start = @ * 10 + ToDigit(cur_char),
                                 !.last_added_directions = FALSE]
                 ELSE [st EXCEPT !.cur_val_end = @ * 10 + ToDigit(cur_char),
                                 !.last_added_directions = FALSE], i + 1)
      ELSE IF cur_char = "-"
        THEN IF ~st.value_start THEN Listed(FALSE, <<>>)
             ELSE GroupLoop(g, [st EXCEPT !.value_start = FALSE,
                                          !.last_added_directions = FALSE], i + 1)
      ELSE IF cur_char = ","
        THEN LET range == AddRange(IF st.adding_rows THEN st.rows ELSE st.cols,
                                   st.cur_val_start, st.cur_val_end)
             IN IF ~range.ok THEN Listed(FALSE, <<>>)
                ELSE GroupLoop(g, [st EXCEPT
                         !.rows = IF st.adding_rows THEN range.list ELSE @,
                         !.cols = IF st.adding_rows THEN @ ELSE range.list,
                         !.value_start = TRUE, !.cur_val_start = 0,
                         !.cur_val_end = 0, !.last_added_directions = FALSE], i + 1)
      ELSE Listed(FALSE, <<>>)

\* the body of the loop over the groups: the cells of one group
ParseGroup(g) ==
    IF Len(g) < 4 \/ g[1] # "r" THEN Listed(FALSE, <<>>)
    ELSE GroupLoop(g, GroupState(<<>>, <<>>, <<>>, TRUE, TRUE, FALSE, 0, 0), 1)

\* Vec<CellIndex> as sort compares it: element by element, then by length
RECURSIVE GroupLess(_, _)
GroupLess(a, b) ==
    IF b = <<>> THEN FALSE
    ELSE IF a = <<>> THEN TRUE
    ELSE IF Head(a) # Head(b) THEN Head(a) < Head(b)
    ELSE GroupLess(Tail(a), Tail(b))

\* result.sort(), a stable sort
RECURSIVE SortGroups(_)
SortGroups(groups) ==
    IF groups = <<>> THEN <<>>
    ELSE LET first == SetMin({i \in 1 .. Len(groups) :
                          \A j \in 1 .. Len(groups) : ~GroupLess(groups[j], groups[i])})
         IN <<groups[first]>> \o
            SortGroups(SubSeq(groups, 1, first - 1) \o SubSeq(groups, first + 1, Len(groups)))

\* Result<Vec<Vec<CellIndex>>, String>
ParseResult(kind, groups) == [kind |-> kind, groups |-> groups]

\* the loop over the groups that are not empty, from the first error on
RECURSIVE ParseGroups(_, _)
ParseGroups(pieces, done) ==
    IF pieces = <<>> THEN ParseResult("Ok", SortGroups(done))
    ELSE IF Head(pieces) = <<>> THEN ParseGroups(Tail(pieces), done)
    ELSE LET cells == ParseGroup(Head(pieces))
         IN IF ~cells.ok THEN ParseResult("Err", <<>>)
            ELSE ParseGroups(Tail(pieces), Append(done, cells.list))

\* CellUtility::parse_cell_groups
ParseCellGroups(str) == ParseGroups(Split(str, ";"), <<>>)

\* the characters of the strings parsed: with Size = 3 the number 4 is out
\* of range, and 2 is also the direction "down"
CellChars == {"r", "c", "d", "-", ",", ";", "2", "3", "4"}
CellStrings == UNION {[1 .. n -> CellChars] : n \in 0 .. MaxLen}

InitParse ==
    /\ puzzle = Puzzle(<<>>, <<>>, <<>>)
    /\ NoLocals
    /\ data = NoData
    /\ board = NoBoard
    /\ pc = "parse"
    /\ stack = <<>>
    /\ solution_count = 0
    /\ maximum_count = 0
    /\ receiver = NoReceiver
    /\ received = <<>>
    /\ result = Running

\* cu.parse_cell_groups(cell_string), with cu = CellUtility::new(Size)
ParseCellString ==
    /\ pc = "parse"
    /\ \E str \in CellStrings :
          /\ cell_string' = str
          /\ result' = ParseCellGroups(str)
    /\ pc' = "parsed"
    /\ UNCHANGED <<puzzle, data, board, stack, solution_count, maximum_count,
                   receiver, received, work, todo, true_cell_values,
                   num_solutions_per_candidate, solutions_seen, count_needed,
                   valid, last_op, num_ops, changed, errors, pings, cancelled,
                   descs, supplied, mem, logical_steps, brute_force_steps,
                   logical_solve_steps, rendered, request, responses, websocket>>

SpecParse == InitParse /\ [][ParseCellString]_vars

(* What a string denotes by the syntax of the groups: groups separated by  *)
(* semicolons, a group a concatenation of r<rows>c<cols> with rows and      *)
(* columns as comma-separated numbers or ranges a-b, each optionally        *)
(* followed by d and numpad directions from the last cell. Cells are        *)
(* <<row, column>> from 1, in the grid or not.                              *)

Parsed(ok, vals, next) == [ok |-> ok, vals |-> vals, next |-> next]
Unparsed == Parsed(FALSE, <<>>, 0)

\* the index after the digits that start at i, and their number
DigitRun(g, i) ==
    LET stops == {j \in i .. Len(g) : ToDigit(g[j]) = NoDigit}
    IN IF stops = {} THEN Len(g) + 1 ELSE SetMin(stops)
RECURSIVE NumberAt(_, _, _)
NumberAt(g, i, j) ==
    IF i >= j THEN 0 ELSE NumberAt(g, i, j - 1) * 10 + ToDigit(g[j - 1])

\* a number or a range a-b
RefItem(g, i) ==
    LET j == DigitRun(g, i)
        a == NumberAt(g, i, j)
        k == DigitRun(g, j + 1)
        b == NumberAt(g, j + 1, k)
        lo == IF a <= b THEN a ELSE b
        hi == IF a <= b THEN b ELSE a
    IN IF j = i THEN Unparsed
       ELSE IF j <= Len(g) /\ g[j] = "-"
         THEN IF k = j + 1 THEN Unparsed
              ELSE Parsed(TRUE, [n \in 1 .. hi - lo + 1 |-> lo + n - 1], k)
       ELSE Parsed(TRUE, <<a>>, j)

\* items separated by commas
RECURSIVE RefList(_, _)
RefList(g, i) ==
    LET item == RefItem(g, i)
    IN IF ~item.ok THEN Unparsed
       ELSE IF item.next <= Len(g) /\ g[item.next] = ","
         THEN LET rest == RefList(g, item.next + 1)
              IN IF ~rest.ok THEN Unparsed
                 ELSE Parsed(TRUE, item.vals \o rest.vals, rest.next)
       ELSE item

\* the cells reached from `cell` by the directions that start at i
RECURSIVE RefWalk(_, _, _, _)
RefWalk(g, i, cell, acc) ==
    IF i <= Len(g) /\ ToDigit(g[i]) \in 1 .. 9
      THEN LET to == <<cell[1] + DirectionStep(g[i])[1], cell[2] + DirectionStep(g[i])[2]>>
           IN RefWalk(g, i + 1, to, Append(acc, to))
      ELSE Parsed(TRUE, acc, i)

\* r<rows>c<cols>, and the directions after it if any
RefSub(g, i) ==
    IF i > Len(g) \/ g[i] # "r" THEN Unparsed
    ELSE LET rows == RefList(g, i + 1)
         IN IF ~rows.ok \/ rows.next > Len(g) \/ g[rows.next] # "c" THEN Unparsed
            ELSE LET cols == RefList(g, rows.next + 1)
                     nc == Len(cols.vals)
                     cells == [k \in 1 .. Len(rows.vals) * nc |->
                                 <<rows.vals[((k - 1) \div nc) + 1],
                                   cols.vals[((k - 1) % nc) + 1]>>]
                     walk == RefWalk(g, cols.next + 1, cells[Len(cells)], <<>>)
                 IN IF ~cols.ok THEN Unparsed
                    ELSE IF cols.next <= Len(g) /\ g[cols.next] = "d"
                      THEN IF walk.vals = <<>> THEN Unparsed
                           ELSE Parsed(TRUE, cells \o walk.vals, walk.next)
                    ELSE Parsed(TRUE, cells, cols.next)

\* one sub-expression after the other, to the end of the group
RECURSIVE RefGroup(_, _, _)
RefGroup(g, i, acc) ==
    IF i > Len(g) THEN Parsed(acc # <<>>, acc, i)
    ELSE LET sub == RefSub(g, i)
         IN IF ~sub.ok THEN Unparsed ELSE RefGroup(g, sub.next, acc \o sub.vals)

\* the groups of a string that are not empty
Groups(str) == SelectSeq(Split(str, ";"), LAMBDA g : g # <<>>)

InputEmpty(str) == Groups(str) = <<>>
Malformed(str) == \E n \in 1 .. Len(Groups(str)) : ~RefGroup(Groups(str)[n], 1, <<>>).ok
InGrid(cell) == cell[1] \in 1 .. Size /\ cell[2] \in 1 .. Size
OutOfGrid(str) ==
    /\ ~Malformed(str)
    /\ \E n \in 1 .. Len(Groups(str)) :
          LET cells == RefGroup(Groups(str)[n], 1, <<>>).vals
          IN \E k \in 1 .. Len(cells) : ~InGrid(cells[k])

\* C24: parse_cell_groups returns an error for every string that is empty,
\* malformed, or denotes a cell outside the grid
ParseRejects ==
    (pc = "parsed" /\ (InputEmpty(cell_string) \/ Malformed(cell_string)
                          \/ OutOfGrid(cell_string)))
       => result.kind = "Err"
----------------------------------------------------------------------------
(* The cell the brute-force searches branch on.                             *)

\* puzzles with powerful cells: alone, with a cell restricted to two values
\* or with a cell that no value may take, and with at most one given
PowerfulLists == {<<4>>, <<8, 0>>, <<2, 4>>}
PowerfulChoices ==
    {<<Powerful(pw)>> : pw \in PowerfulLists}
      \cup {<<Powerful(pw), Pencilmark(c, vals)>> :
               pw \in PowerfulLists, c \in {0, 4, 8},
               vals \in {v \in SUBSET Values : Cardinality(v) = 2}}
      \cup {<<Powerful(pw), EnforceOnly({Candidate(0, v) : v \in Values})>> :
               pw \in PowerfulLists}
PowerfulPuzzles ==
    {Puzzle(<<>>, c, g) : c \in PowerfulChoices, g \in GivenSeqs(1)}

\* find_solution_count or find_random_solution on a solver with powerful cells
InitBest ==
    /\ puzzle \in PowerfulPuzzles
    /\ \E s \in {Build(puzzle)} :
          /\ s.ok
          /\ data = s.data
          /\ board = s.board
    /\ NoLocals
    /\ pc \in {"run", "random"}
    /\ stack = <<board>>
    /\ solution_count = 0
    /\ maximum_count = IF pc = "run" THEN MaxCount ELSE 0
    /\ receiver = NoReceiver
    /\ received = <<>>
    /\ result = Running

NextBest ==
    \/ CountIteration
    \/ CountExhausted
    \/ RandomIteration
    \/ RandomExhausted

SpecBest == InitBest /\ [][NextBest]_vars

\* the cells the stated order of priority allows on the board b: the first
\* unsolved powerful cell with at most 2 candidates; else the unsolved
\* powerful cells with the fewest candidates; else the first unsolved cell
\* with at most 2 candidates; else the unsolved cells with the fewest
PriorityCells(b, d) ==
    LET count(c) == MaskCount(b.board[c])
        unsolved == {c \in Cells : ~MaskIsSolved(b.board[c])}
        pw == d.powerful_cells
        pwUnsolved == {c \in unsolved : \E i \in 1 .. Len(pw) : pw[i] = c}
        all == [i \in 1 .. NumCells |-> i - 1]
        fewest(cells) == {c \in cells : \A e \in cells : count(c) <= count(e)}
    IN IF \E c \in pwUnsolved : count(c) <= 2
         THEN {FirstCell(pw, {c \in pwUnsolved : count(c) <= 2})}
       ELSE IF pwUnsolved # {} THEN fewest(pwUnsolved)
       ELSE IF \E c \in unsolved : count(c) <= 2
         THEN {FirstCell(all, {c \in unsolved : count(c) <= 2})}
       ELSE fewest(unsolved)

\* the stack after the count branched on `cell` of the board b
CountBranched(rest, b, d, cell) ==
    PushValues(rest, b, d, cell, SortedSeq(b.board[cell].v))

\* the stacks the random search may leave after branching on `cell`
RandomBranched(rest, b, d, cell) ==
    {The({The({IF set.ok THEN Append(s1, set.b) ELSE s1 :
               set \in {SetSolved(b, d, cell, value)}}) :
          s1 \in {The({IF cleared.ok THEN Append(rest, cleared.b) ELSE rest :
                       cleared \in {ClearValue(b, cell, value)}})}}) :
       value \in b.board[cell].v}

\* the step is an iteration that branches: the board on top of the stack
\* passed the brute-force logic unsolved and a cell was found
Branching ==
    /\ pc \in {"run", "random"}
    /\ stack # <<>>
    /\ pc' = pc
    /\ \E r \in {RunBruteForceLogic(stack[Len(stack)], data)} : r.ok /\ ~IsSolved(r.b)

\* C25: every branching iteration of find_solution_count and of
\* find_random_solution branches on a cell that the order of priority
\* allows: the first unsolved powerful cell with at most 2 candidates, else
\* an unsolved powerful cell with the fewest candidates, else the first
\* unsolved cell with at most 2 candidates, else an unsolved cell with the
\* fewest candidates
BranchesByPriority ==
    [][Branching =>
         \E r \in {RunBruteForceLogic(stack[Len(stack)], data)} :
         \E cell \in PriorityCells(r.b, data) :
            LET rest == SubSeq(stack, 1, Len(stack) - 1)
            IN IF pc = "run" THEN stack' = CountBranched(rest, r.b, data, cell)
               ELSE stack' \in RandomBranched(rest, r.b, data, cell)]_vars

\* a search branched on a powerful cell with 3 candidates although a cell
\* before it had 2: the cell is solved on the top of the stack, the other
\* cell still has its 2 candidates
PowerfulCellPreferred ==
    /\ pc \in {"run", "random"}
    /\ Len(stack) > 1
    /\ \E i \in 1 .. Len(data.powerful_cells) :
          LET c == data.powerful_cells[i]
          IN /\ ~MaskIsSolved(board.board[c])
             /\ MaskCount(board.board[c]) = 3
             /\ MaskIsSolved(stack[Len(stack)].board[c])
             /\ \E e \in 0 .. c - 1 :
                   /\ \A j \in 1 .. Len(data.powerful_cells) : data.powerful_cells[j] # e
                   /\ MaskCount(board.board[e]) = 2
                   /\ stack[Len(stack)].board[e] = board.board[e]
----------------------------------------------------------------------------
(* The givens of a built solver.                                            *)

\* the lists handed to with_givens: two givens on one cell, two equal
\* values in one row, two givens that agree with the rules
GivenLists ==
    {<< <<0, 1>>, <<0, 2>> >>, << <<0, 1>>, <<1, 1>> >>, << <<0, 1>>, <<Size + 1, 2>> >>}

\* with_given(cell_index, value)
WithGiven ==
    /\ pc = "builder"
    /\ num_ops < MaxCalls
    /\ \E given \in AllGivens :
          /\ puzzle' = [puzzle EXCEPT !.givens = Append(@, given)]
          /\ supplied' = Append(supplied, Supplied("with_given", given))
    /\ num_ops' = num_ops + 1
    /\ UNCHANGED <<errors, data, board, pc, result, service, BuilderFrame>>

\* with_givens(givens)
WithGivens ==
    /\ pc = "builder"
    /\ num_ops < MaxCalls
    /\ \E givens \in GivenLists :
          /\ puzzle' = [puzzle EXCEPT !.givens = @ \o givens]
          /\ supplied' = Append(supplied, Supplied("with_givens", givens))
    /\ num_ops' = num_ops + 1
    /\ UNCHANGED <<errors, data, board, pc, result, service, BuilderFrame>>

NextGivens == WithGiven \/ WithGivens \/ WithGivensString \/ BuildSolver

SpecGivens == InitBuilder /\ [][NextGivens]_vars

\* the givens supplied to the builder, in the order of the calls
RECURSIVE SuppliedGivens(_)
SuppliedGivens(calls) ==
    IF calls = <<>> THEN <<>>
    ELSE LET last == calls[Len(calls)]
             before == SuppliedGivens(SubSeq(calls, 1, Len(calls) - 1))
         IN IF last.method = "with_given" THEN Append(before, last.arg)
            ELSE IF last.method = "with_givens" THEN before \o last.arg
            ELSE IF last.method = "with_givens_string" /\ ByteLen(last.arg) = NumCells
              THEN before \o ParseGivens(last.arg, 1)
            ELSE before

\* two givens put different values into one cell, or one value into two
\* cells of a row or a column
GivensConflict(givens) ==
    \E i, j \in 1 .. Len(givens) :
       \/ givens[i][1] = givens[j][1] /\ givens[i][2] # givens[j][2]
       \/ /\ givens[i][1] # givens[j][1]
          /\ givens[i][2] = givens[j][2]
          /\ \/ CellRow(givens[i][1]) = CellRow(givens[j][1])
             \/ CellCol(givens[i][1]) = CellCol(givens[j][1])

\* C26: when build returns a solver, every given supplied to the builder
\* is solved with its value on the built board, and build returns no solver
\* when two of the givens conflict
GivensHonoured ==
    pc = "built" =>
       /\ result.kind = "Ok" =>
             \A i \in 1 .. Len(SuppliedGivens(supplied)) :
                LET given == SuppliedGivens(supplied)[i]
                IN /\ MaskIsSolved(board.board[given[1]])
                   /\ MaskValue(board.board[given[1]]) = given[2]
       /\ GivensConflict(SuppliedGivens(supplied)) => result.kind = "Err"
----------------------------------------------------------------------------
(* Termination of the brute-force searches.                                 *)

\* puzzles for the four searches: without a constraint, with a constraint
\* whose step_logic removes a candidate, with a cell restricted to two
\* values or with a cell that no value may take, and with at most one
\* given, in the first or in the middle cell
SearchChoices ==
    {<<>>}
      \cup {<<RemoveCandidate(c)>> : c \in {1, Candidate(Size + 1, 1)}}
      \cup {<<Pencilmark(4, {1, 2})>>}
      \cup {<<EnforceOnly({Candidate(0, v) : v \in Values})>>}
SearchGivens == {<<>>} \cup {<<g>> : g \in {0, Size + 1} \X Values}
SearchPuzzles ==
    {Puzzle(<<>>, c, g) : c \in SearchChoices, g \in SearchGivens}

\* find_solution_count, find_first_solution, find_random_solution or
\* find_true_candidates on a built solver (find_true_candidates on the
\* puzzles with a given)
InitSearch ==
    /\ puzzle \in SearchPuzzles
    /\ \E s \in {Build(puzzle)} :
          /\ s.ok
          /\ data = s.data
          /\ board = s.board
    /\ NoLocals
    /\ pc \in {"run", "first", "random", "start"}
    /\ pc = "start" => puzzle.givens # <<>>
    /\ stack = CASE pc = "first" -> << <<board, 0>> >>
                 [] pc = "start" -> <<>>
                 [] OTHER -> <<board>>
    /\ solution_count = 0
    /\ maximum_count = IF pc = "run" THEN MaxCount ELSE 0
    /\ receiver = NoReceiver
    /\ received = <<>>
    /\ result = Running

NextSearch ==
    \/ CountIteration
    \/ CountExhausted
    \/ FirstIteration
    \/ FirstExhausted
    \/ TrueStart
    \/ TrueCell
    \/ TrueValue
    \/ RandomIteration
    \/ RandomExhausted
    \/ TrueFinish

\* an entry point runs on the caller's thread and never waits: as long as a
\* step of its loop is possible, it is taken
SpecSearch == InitSearch /\ [][NextSearch]_vars /\ WF_vars(NextSearch)

\* the remaining candidates and the solved cells of a board
RECURSIVE SumCounts(_, _)
SumCounts(b, cell) ==
    IF cell = NumCells THEN 0 ELSE MaskCount(b.board[cell]) + SumCounts(b, cell + 1)
RemainingCandidates(b) == SumCounts(b, 0)
NumSolved(b) == Cardinality({c \in Cells : MaskIsSolved(b.board[c])})
Shrinks(from, to) ==
    RemainingCandidates(to) < RemainingCandidates(from) \/ NumSolved(to) > NumSolved(from)

\* the board of a stack entry: find_first_solution keeps pairs
BoardOf(entry) == IF pc = "first" THEN entry[1] ELSE entry

\* the step pushes only boards that shrink the board they come from: the
\* board popped, or the board find_true_candidates tries a value on
PushesShrink ==
    LET from == IF stack = <<>> THEN work ELSE BoardOf(stack[Len(stack)])
        first == IF stack = <<>> THEN 1 ELSE Len(stack)
    IN \A i \in first .. Len(stack') : Shrinks(from, BoardOf(stack'[i]))

\* the brute-force logic ends, and where it leaves a valid board, no step
\* of the list changes the board any more
LogicFixedPoint ==
    stack # <<>> =>
        \E r \in {RunBruteForceLogic(BoardOf(stack[Len(stack)]), data)} :
            r.ok => RunSingleBruteForceStep(r.b, data) = [res |-> "None", b |-> r.b,
                                                          step |-> "none"]

\* C27: find_first_solution, find_random_solution, find_solution_count and
\* find_true_candidates terminate: every board pushed on the search stack
\* has strictly fewer remaining candidates or more solved cells than the
\* board it was derived from, the brute-force logic loop reaches a fixed
\* point, and the entry point returns
SearchTerminates ==
    /\ [][PushesShrink /\ LogicFixedPoint]_vars
    /\ <>(pc = "done")

\* a search that branched has returned: the count found several solutions
\* of a puzzle whose constraint removes a candidate in step_logic
SearchReturned ==
    /\ pc = "done"
    /\ \E i \in 1 .. Len(puzzle.cons) : puzzle.cons[i].step_remove # {}
    /\ result.kind \in {"ExactCount", "AtLeastCount"}
    /\ result.n >= 2
----------------------------------------------------------------------------
(* The cell to branch on is always found.                                   *)

\* puzzles for the search of a cell: those with powerful cells, and
\* puzzles whose built board has a cell without candidates, powerful or not
CellChoices ==
    PowerfulChoices
      \cup {<<Powerful(pw), Pencilmark(c, {})>> : pw \in PowerfulLists, c \in {0, 4}}
      \cup {<<Pencilmark(0, {v \in Values : v % 2 = 1}),
              Pencilmark(0, {v \in Values : v % 2 = 0})>>}
      \cup {<<>>}
CellPuzzles ==
    {Puzzle(<<>>, c, g) : c \in CellChoices, g \in GivenSeqs(1)}

\* find_solution_count or find_random_solution on a built solver
InitCell ==
    /\ puzzle \in CellPuzzles
    /\ \E s \in {Build(puzzle)} :
          /\ s.ok
          /\ data = s.data
          /\ board = s.board
    /\ NoLocals
    /\ pc \in {"run", "random"}
    /\ stack = <<board>>
    /\ solution_count = 0
    /\ maximum_count = IF pc = "run" THEN MaxCount ELSE 0
    /\ receiver = NoReceiver
    /\ received = <<>>
    /\ result = Running

SpecCell == InitCell /\ [][NextBest]_vars

\* the board the next iteration pops passes the brute-force logic valid
\* and not solved
LogicLeavesOpen(r) == r.ok /\ ~IsSolved(r.b)

\* C28: the brute-force entry points never return the error 'Internal
\* error finding a cell to check.': whenever the brute-force logic leaves
\* the board popped valid and not solved, find_best_brute_force_cell
\* returns an unsolved cell with at least two candidates
CellAlwaysFound ==
    /\ result.kind # "Error"
    /\ (pc \in {"run", "random"} /\ stack # <<>>) =>
          \E r \in {RunBruteForceLogic(stack[Len(stack)], data)} :
             LogicLeavesOpen(r) =>
                \E cell \in {FindBestBruteForceCell(r.b, data)} :
                   /\ cell \in Cells
                   /\ ~MaskIsSolved(r.b.board[cell])
                   /\ MaskCount(r.b.board[cell]) >= 2

\* after a first branching, the logic leaves the board on top of the stack
\* valid and not solved, and the solver has a powerful cell that is solved
\* on that board
CellFoundAgain ==
    /\ pc \in {"run", "random"}
    /\ Len(stack) >= 2
    /\ LogicLeavesOpen(RunBruteForceLogic(stack[Len(stack)], data))
    /\ \E i \in 1 .. Len(data.powerful_cells) :
          MaskIsSolved(stack[Len(stack)].board[data.powerful_cells[i]])
----------------------------------------------------------------------------
(* The websocket listener: client_connection and its ThreadedHandlers.      *)
(* A message is named by its position in the stream, which is also its      *)
(* nonce. handle_message is followed as far as its responses go: it         *)
(* returns at once when the token is cancelled, and sends one final         *)
(* response at its end otherwise.                                           *)

MaxMessages == 2
MAX_COUNT == 100

WsFrame ==
    <<puzzle, data, board, stack, solution_count, maximum_count, receiver,
      received, result, work, todo, true_cell_values,
      num_solutions_per_candidate, solutions_seen, count_needed, valid,
      last_op, num_ops, changed, errors, pings, cancelled, descs, supplied,
      mem, logical_steps, brute_force_steps, logical_solve_steps, rendered,
      request, cell_string>>

\* a websocket is about to be handed to client_connection
InitWebsocket ==
    /\ puzzle = Puzzle(<<>>, <<>>, <<>>)
    /\ NoLocals
    /\ data = NoData
    /\ board = NoBoard
    /\ pc = "accept"
    /\ stack = <<>>
    /\ solution_count = 0
    /\ maximum_count = 0
    /\ receiver = NoReceiver
    /\ received = <<>>
    /\ result = Running

\* Cancellation::cancel on the token of message m (0: a token no message has)
CancelToken(tok, m) == IF m = 0 THEN tok ELSE [tok EXCEPT ![m].cancel = TRUE]
\* last_message_completed.load
LastCompleted == connection.last_message = 0 \/ tokens[connection.last_message].completed

NewHandler == Handler(TRUE, <<>>, "recv", 0)

\* client_connection up to its loop: the first handler and its thread
Accept ==
    /\ pc = "accept"
    /\ pc' = "open"
    /\ connection' = Connection("next", 0, 0, 0, 1, 0)
    /\ handlers' = <<NewHandler>>
    /\ UNCHANGED <<tokens, responses, WsFrame>>

\* client_ws_rcv.next() yields the next message of the client
NextMessage ==
    /\ pc = "open"
    /\ connection.at = "next"
    /\ connection.taken < MaxMessages
    /\ connection' = [connection EXCEPT !.at = "make_ready",
                                        !.message = connection.taken + 1,
                                        !.taken = connection.taken + 1]
    /\ tokens' = Append(tokens, Token(FALSE, FALSE))
    /\ UNCHANGED <<pc, handlers, responses, WsFrame>>

\* make_ready up to its loop
MakeReady ==
    /\ pc = "open"
    /\ connection.at = "make_ready"
    /\ IF LastCompleted
         THEN /\ connection' = [connection EXCEPT !.at = "send"]
              /\ UNCHANGED tokens
         ELSE /\ tokens' = CancelToken(tokens, connection.last_message)
              /\ connection' = [connection EXCEPT !.at = "wait", !.counter = 0]
    /\ UNCHANGED <<pc, handlers, responses, WsFrame>>

\* one test of the loop of make_ready: another sleep, or its return
Wait ==
    /\ pc = "open"
    /\ connection.at = "wait"
    /\ connection' =
          IF connection.counter < MAX_COUNT /\ ~LastCompleted
            THEN [connection EXCEPT !.counter = connection.counter + 1]
          ELSE [connection EXCEPT
                  !.at = IF connection.counter < MAX_COUNT THEN "send" ELSE "replace"]
    /\ UNCHANGED <<pc, handlers, tokens, responses, WsFrame>>

\* make_ready returned false: handler.close() and ThreadedHandler::new
Replace ==
    /\ pc = "open"
    /\ connection.at = "replace"
    /\ tokens' = CancelToken(tokens, connection.last_message)
    /\ handlers' = Append([handlers EXCEPT ![connection.handler].open = FALSE],
                          NewHandler)
    /\ connection' = [connection EXCEPT !.at = "send",
                                        !.handler = connection.handler + 1,
                                        !.last_message = 0]
    /\ UNCHANGED <<pc, responses, WsFrame>>

\* handler.send(msg.into())
Send ==
    /\ pc = "open"
    /\ connection.at = "send"
    /\ tokens' = CancelToken(tokens, connection.last_message)
    /\ handlers' = [handlers EXCEPT
                      ![connection.handler].queue = Append(@, connection.message)]
    /\ connection' = [connection EXCEPT !.at = "next",
                                        !.last_message = connection.message]
    /\ UNCHANGED <<pc, responses, WsFrame>>

\* the thread of handler i: blocking_recv returns a message, or None once
\* the sender is dropped and the channel is empty
ThreadRecv(i) ==
    /\ handlers[i].thread = "recv"
    /\ IF handlers[i].queue # <<>>
         THEN handlers' = [handlers EXCEPT ![i].thread = "handle",
                                           ![i].message = Head(handlers[i].queue),
                                           ![i].queue = Tail(handlers[i].queue)]
         ELSE /\ ~handlers[i].open
              /\ handlers' = [handlers EXCEPT ![i].thread = "exit"]
    /\ UNCHANGED <<pc, connection, tokens, responses, WsFrame>>

\* handle_message reads the token: it returns at once when it is cancelled
HandleMessage(i) ==
    /\ handlers[i].thread = "handle"
    /\ handlers' = [handlers EXCEPT ![i].thread =
                       IF tokens[handlers[i].message].cancel THEN "store" ELSE "work"]
    /\ UNCHANGED <<pc, connection, tokens, responses, WsFrame>>

\* handle_message comes to its end and sends the final response
SendResult(i) ==
    /\ handlers[i].thread = "work"
    /\ responses' = Append(responses, [nonce |-> handlers[i].message, handler |-> i])
    /\ handlers' = [handlers EXCEPT ![i].thread = "store"]
    /\ UNCHANGED <<pc, connection, tokens, WsFrame>>

\* completed_token.store(true)
StoreCompleted(i) ==
    /\ handlers[i].thread = "store"
    /\ tokens' = [tokens EXCEPT ![handlers[i].message].completed = TRUE]
    /\ handlers' = [handlers EXCEPT ![i].thread = "recv"]
    /\ UNCHANGED <<pc, connection, responses, WsFrame>>

Thread(i) ==
    /\ pc = "open"
    /\ i <= Len(handlers)
    /\ (ThreadRecv(i) \/ HandleMessage(i) \/ SendResult(i) \/ StoreCompleted(i))

ConnectionTask == Accept \/ MakeReady \/ Wait \/ Replace \/ Send

NextWebsocket ==
    \/ NextMessage
    \/ ConnectionTask
    \/ \E i \in 1 .. MaxMessages : Thread(i)

\* the connection stays open: the task and every thread keep running, a
\* handle_message that is not cancelled comes to its end; the client may
\* stop sending
SpecWebsocket ==
    /\ InitWebsocket
    /\ [][NextWebsocket]_vars
    /\ WF_vars(ConnectionTask)
    /\ \A i \in 1 .. MaxMessages : WF_vars(Thread(i))

\* the final responses sent with the nonce of message m
FinalResponses(m) == {k \in 1 .. Len(responses) : responses[k].nonce = m}

\* C29: every request message received from the client eventually causes
\* exactly one final response carrying its nonce to be sent
EveryRequestAnswered ==
    /\ [](\A m \in 1 .. MaxMessages : Cardinality(FinalResponses(m)) <= 1)
    /\ \A m \in 1 .. MaxMessages :
          (connection.taken >= m) ~> (Cardinality(FinalResponses(m)) = 1)

\* the threads that are executing handle_message
Executing == {i \in 1 .. Len(handlers) : handlers[i].thread \in {"handle", "work"}}
\* handler h has been given a message
Given(h) == handlers[h].queue # <<>> \/ handlers[h].message # 0

\* C30: at most one handler thread is executing handle_message at any
\* time, and the thread of a replaced handler sends no response once the
\* new handler has been given a message
OneHandlerExecuting ==
    /\ [](Cardinality(Executing) <= 1)
    /\ [][Len(responses') > Len(responses) =>
            \/ responses'[Len(responses')].handler = connection.handler
            \/ ~Given(connection.handler)]_vars
=============================================================================
